---- MODULE Spec2Model ----
(***************************************************************************)
(* A model of src/src/html-to-pdf.ts (jsPDF-utils): the layout resolver,   *)
(* the oversize splitter, the boundary pagination engine and the render    *)
(* entry points.                                                           *)
(*                                                                         *)
(* Lengths in millimetres are held in tenths of a millimetre (TenthMm), so *)
(* that the format tables keep their values (letter is 215.9 mm wide).     *)
(* Lengths in CSS pixels are held in sub-pixel units (SubPx units to the   *)
(* pixel), because getBoundingClientRect returns fractional pixels.        *)
(* JavaScript numbers that can be non-finite are records (JsNum).          *)
(***************************************************************************)
EXTENDS Integers, Sequences, FiniteSets, TLC

VARIABLES
    \* ---- one render call (generatePDF, generateImagePDF, ...) ----
    call,       \* the call's arguments and what the environment will measure
    pc,         \* position of the call in its async function
    attached,   \* off-screen scaffolding of the call attached to the document
    layout,     \* the Layout computed by computeLayout, or NoLayout
    splitPx,    \* the pageContentPx handed to the splitters, or NotRun
    doc,        \* the document: pages, their painting operations in order
    loop,       \* the page loop: [i, total]
    out,        \* what the call delivered: [settled, images, preview]
    imgs,       \* the <img> elements of the clone
    log,        \* what the call has done so far, in order
    \* ---- the pagination engine on the clone ----
    source,     \* the caller's element: its child blocks
    clone,      \* the off-screen clone's child blocks
    pageContentPx, \* usable page height in CSS pixels (a whole number)
    ppc,        \* position of the pagination pipeline
    stack,      \* insertPageBreakSpacers activations: <<[path, i]>>
    last,       \* what the last loop iteration of insertPageBreakSpacers did
    fit,        \* one call of binarySearchWordFit: its arguments and result
    runs,       \* the clones that earlier runs on the same source ended with
    strip,      \* one call of renderTextEdgeStrip: its arguments and the strip
    dom,        \* the scaffolding nodes attached to the document, next id
    jobs        \* render calls that overlap: position and nodes of each

renderVars == <<call, pc, attached, layout, splitPx, doc, loop, out, imgs, log>>
pageVars == <<source, clone, pageContentPx, ppc, stack, last, fit, runs, strip,
              dom, jobs>>
vars == <<call, pc, attached, layout, splitPx, doc, loop, out, imgs, log,
          source, clone, pageContentPx, ppc, stack, last, fit, runs, strip,
          dom, jobs>>

(***************************************************************************)
(* JavaScript numbers                                                      *)
(***************************************************************************)
Fin(n, d) == [k |-> "fin", n |-> n, d |-> d]
Inf(s) == [k |-> "inf", n |-> s, d |-> 0]
NaN == [k |-> "nan", n |-> 0, d |-> 0]
Undefined == [k |-> "undef", n |-> 0, d |-> 0]

Min(a, b) == IF a <= b THEN a ELSE b

\* floor(a / b) for integers a and b, b # 0
FloorDiv(a, b) == IF b > 0 THEN a \div b ELSE (0 - a) \div (0 - b)

\* ceil(a / b) for integers a and b, b # 0
CeilDiv(a, b) == 0 - FloorDiv(0 - a, b)

\* a / b for integers a and b, as JavaScript divides
JsDiv(a, b) ==
    IF b # 0 THEN (IF b > 0 THEN Fin(a, b) ELSE Fin(0 - a, 0 - b))
    ELSE IF a > 0 THEN Inf(1)
    ELSE IF a < 0 THEN Inf(-1)
    ELSE NaN

\* Math.floor(u / s) for an integer u and a JavaScript number s
JsFloorQuot(u, s) ==
    CASE s.k = "nan" -> NaN
      [] s.k = "inf" -> Fin(0, 1)
      [] s.k = "fin" /\ s.n = 0 ->
            (IF u > 0 THEN Inf(1) ELSE IF u < 0 THEN Inf(-1) ELSE NaN)
      [] OTHER -> Fin(FloorDiv(u * s.d, s.n), 1)

(***************************************************************************)
(* Page formats: PAGE_SIZES and PAGE_MARGINS, in tenths of a millimetre    *)
(***************************************************************************)
Formats == {"a4", "a6", "letter"}

PAGE_SIZES ==
    [f \in Formats |->
        CASE f = "a4" -> <<2100, 2970>>
          [] f = "a6" -> <<1050, 1480>>
          [] f = "letter" -> <<2159, 2794>>]

PAGE_MARGINS ==
    [f \in Formats |->
        CASE f = "a4" -> 250
          [] f = "a6" -> 120
          [] f = "letter" -> 254]

createUniformMargin(value) ==
    [top |-> value, right |-> value, bottom |-> value, left |-> value]

\* A MarginInput is Undefined, or Fin(v, 1) for the number v (tenths of mm)
resolveMargin(input, format) ==
    IF input.k = "undef" THEN createUniformMargin(PAGE_MARGINS[format])
    ELSE createUniformMargin(input.n)

resolveOptions(opts) ==
    [format |-> opts.format,
     pageWidth |-> PAGE_SIZES[opts.format][1],
     pageHeight |-> PAGE_SIZES[opts.format][2],
     margin |-> resolveMargin(opts.margin, opts.format)]

(***************************************************************************)
(* computeLayout                                                           *)
(***************************************************************************)
UsableHeightMm(opts) == opts.pageHeight - opts.margin.top - opts.margin.bottom

computeLayout(renderedWidth, opts) ==
    LET contentWidthMm == opts.pageWidth - opts.margin.left - opts.margin.right
        scale == JsDiv(contentWidthMm, renderedWidth)
        usableHeightMm == UsableHeightMm(opts)
        pageContentPxL == JsFloorQuot(usableHeightMm, scale)
    IN  [renderedWidth |-> renderedWidth,
         scale |-> scale,
         contentWidthMm |-> contentWidthMm,
         pageContentPx |-> pageContentPxL]

NoLayout ==
    [renderedWidth |-> 0, scale |-> Undefined, contentWidthMm |-> 0,
     pageContentPx |-> Undefined]

(***************************************************************************)
(* forcedPageCount                                                         *)
(***************************************************************************)
\* `if (opts.forcedPageCount)`: undefined, NaN and 0 are falsy
Truthy(x) == x.k = "inf" \/ (x.k = "fin" /\ x.n # 0)

NormalizeKeepingSmall(forcedPageCount) ==
    IF forcedPageCount.k # "fin" THEN Undefined
    ELSE Fin(FloorDiv(forcedPageCount.n, forcedPageCount.d), 1)

normalizeForcedPageCount(forcedPageCount) ==
    IF forcedPageCount.k # "fin" THEN Undefined
    ELSE LET normalized == FloorDiv(forcedPageCount.n, forcedPageCount.d)
         IN  IF normalized < 1 THEN Undefined ELSE Fin(normalized, 1)

\* Math.min(actual, forced) and `i < totalPages` on JavaScript numbers
JsMin(a, b) ==
    CASE a.k = "nan" \/ b.k = "nan" -> NaN
      [] a.k = "inf" -> (IF a.n > 0 THEN b ELSE a)
      [] b.k = "inf" -> (IF b.n > 0 THEN a ELSE b)
      [] OTHER -> Fin(Min(a.n, b.n), 1)

\* i < x for an integer i and a JavaScript number x holding an integer
JsLess(i, x) ==
    CASE x.k = "fin" -> i < x.n
      [] x.k = "inf" -> x.n > 0
      [] OTHER -> FALSE

resolveTotalPages(actualTotalPages, forcedPageCount) ==
    LET forced == normalizeForcedPageCount(forcedPageCount)
    IN  IF ~Truthy(forced) THEN actualTotalPages
        ELSE JsMin(actualTotalPages, forced)

\* the document's page count after the deletePage loop
trimDocumentToForcedPageCount(pages, forcedPageCount) ==
    LET forced == normalizeForcedPageCount(forcedPageCount)
    IN  IF ~Truthy(forced) THEN pages
        ELSE IF pages > forced.n THEN forced.n ELSE pages

(***************************************************************************)
(* Decorations: margin slots, the rectangle border, the text border.       *)
(* Rectangles are in tenths of a millimetre.                               *)
(***************************************************************************)
MARGIN_SLOTS == <<"top", "right", "bottom", "left">>
Slots == {"top", "right", "bottom", "left"}

\* a margin override: undefined, a number, or an object naming some sides
NoOverride ==
    [k |-> "none", v |-> 0, sides |-> [s \in Slots |-> Undefined]]
NumberOverride(v) ==
    [k |-> "num", v |-> v, sides |-> [s \in Slots |-> Undefined]]
SidesOverride(sides) == [k |-> "sides", v |-> 0, sides |-> sides]

\* an override that never looks at the fallback it is given
ResolveOverrideIgnoringFallback(m, opts, fallback) ==
    LET fb == opts.margin
        Side(s) == IF m.sides[s].k = "undef" THEN fb[s] ELSE m.sides[s].n
    IN  CASE m.k = "none" -> fb
          [] m.k = "num" -> createUniformMargin(m.v)
          [] OTHER -> [top |-> Side("top"), right |-> Side("right"),
                       bottom |-> Side("bottom"), left |-> Side("left")]

\* `fallback` is <<>> when the argument is omitted, else <<margin>>
resolveMarginOverride(m, opts, fallback) ==
    LET fb == IF fallback = <<>> THEN opts.margin ELSE fallback[1]
        Side(s) == IF m.sides[s].k = "undef" THEN fb[s] ELSE m.sides[s].n
    IN  CASE m.k = "none" -> fb
          [] m.k = "num" -> createUniformMargin(m.v)
          [] OTHER -> [top |-> Side("top"), right |-> Side("right"),
                       bottom |-> Side("bottom"), left |-> Side("left")]

resolveBorderMargin(border, opts) ==
    resolveMarginOverride(border.margin, opts, <<>>)

getSlotRect(slot, opts, m) ==
    CASE slot = "top" ->
            [x |-> 0, y |-> 0, width |-> opts.pageWidth, height |-> m.top]
      [] slot = "bottom" ->
            [x |-> 0, y |-> opts.pageHeight - m.bottom,
             width |-> opts.pageWidth, height |-> m.bottom]
      [] slot = "left" ->
            [x |-> 0, y |-> 0, width |-> m.left, height |-> opts.pageHeight]
      [] OTHER ->
            [x |-> opts.pageWidth - m.right, y |-> 0,
             width |-> m.right, height |-> opts.pageHeight]

\* marginContent, border and textBorder when the option is not given
NoContent ==
    [given |-> FALSE, slots |-> [s \in Slots |-> "none"],
     margin |-> NoOverride]
NoBorder == [given |-> FALSE, margin |-> NoOverride]

\* `if (opts.marginContent || opts.textBorder || opts.border)`
Decorated(c) == c.marginContent.given \/ c.textBorder.given \/ c.border.given

\* a painting operation of a page: kind is "content", "slot", "border" or
\* "textBorder"; a slot's bitmap is the static one (page 0) or the one its
\* factory made for (page, total); n numbers the content operations
ContentOp(page, n) ==
    [kind |-> "content", slot |-> "none", x |-> 0, y |-> 0, w |-> 0, h |-> 0,
     page |-> page, total |-> Fin(0, 1), n |-> n]

\* what doc.html wrote on a page: page p holds p - 1 operations
ContentOps(page) == [n \in 1 .. (page - 1) |-> ContentOp(page, n)]

\* createPageSliceCanvas: sliceHeight = Math.min(contentHeightPx,
\* sourceCanvas.height - pageIndex * contentHeightPx), in canvas rows; the
\* page loop runs only with a finite contentHeightPx
SliceHeight(canvasHeight, pageIndex, contentHeightPx) ==
    Min(contentHeightPx, canvasHeight - pageIndex * contentHeightPx)

\* the one drawImage of drawContentSliceOnCanvas; y and h are the top and
\* the height of the source rows it copies (pageIndex = page - 1)
ContentSlice(page, canvasHeight, contentHeightPx) ==
    <<[ContentOp(page, 1) EXCEPT
          !.y = (page - 1) * contentHeightPx,
          !.h = SliceHeight(canvasHeight, page - 1, contentHeightPx)]>>

ContentMargin(c, opts) ==
    resolveMarginOverride(c.marginContent.margin, opts,
                          <<createUniformMargin(PAGE_MARGINS[opts.format])>>)

\* the slots that get past `if (!val) continue` and the rect test
DrawnSlots(c, opts) ==
    IF ~c.marginContent.given THEN <<>>
    ELSE SelectSeq(MARGIN_SLOTS,
            LAMBDA s :
                /\ c.marginContent.slots[s] # "none"
                /\ getSlotRect(s, opts, ContentMargin(c, opts)).width > 0
                /\ getSlotRect(s, opts, ContentMargin(c, opts)).height > 0)

SlotOp(c, opts, s, page, total) ==
    LET rect == getSlotRect(s, opts, ContentMargin(c, opts))
        static == c.marginContent.slots[s] = "static"
    IN  [kind |-> "slot", slot |-> s, x |-> rect.x, y |-> rect.y,
         w |-> rect.width, h |-> rect.height,
         page |-> IF static THEN 0 ELSE page,
         total |-> IF static THEN Fin(0, 1) ELSE total, n |-> 0]

BorderOp(kind, border, opts) ==
    LET bm == resolveBorderMargin(border, opts)
    IN  [kind |-> kind, slot |-> "none", x |-> bm.left, y |-> bm.top,
         w |-> opts.pageWidth - bm.left - bm.right,
         h |-> opts.pageHeight - bm.top - bm.bottom,
         page |-> 0, total |-> Fin(0, 1), n |-> 0]

\* the operations one page gets from addMarginContent's loop body, or from
\* drawMarginContentOnCanvas: slots, then the border, then the text border
PageDecorations(c, opts, page, total) ==
    LET drawn == DrawnSlots(c, opts)
    IN  [j \in 1 .. Len(drawn) |-> SlotOp(c, opts, drawn[j], page, total)]
            \o (IF c.border.given
                THEN <<BorderOp("border", c.border, opts)>> ELSE <<>>)
            \o (IF c.textBorder.given /\ c.context
                THEN <<BorderOp("textBorder", c.textBorder, opts)>>
                ELSE <<>>)

\* an entry of the log
Ev(e) == [e |-> e, slot |-> "none", page |-> 0, total |-> Fin(0, 1)]
SlotEv(e, s, page, total) ==
    [e |-> e, slot |-> s, page |-> page, total |-> total]

\* preRenderStaticSlots: one renderSlotToCanvas per static slot
StaticSlots(c, opts) ==
    SelectSeq(DrawnSlots(c, opts),
              LAMBDA s : c.marginContent.slots[s] = "static")

StaticRenders(c, opts) ==
    [j \in 1 .. Len(StaticSlots(c, opts)) |->
        SlotEv("static", StaticSlots(c, opts)[j], 0, Fin(0, 1))]

FactorySlots(c, opts) ==
    SelectSeq(DrawnSlots(c, opts),
              LAMBDA s : c.marginContent.slots[s] = "factory")

\* factory calls that number the pages from 0
FactoryCallsZeroBased(c, opts, page, total) ==
    [j \in 1 .. Len(FactorySlots(c, opts)) |->
        SlotEv("factory", FactorySlots(c, opts)[j], page - 1, total)]

\* val(page, totalPages) for every factory slot of one page
FactoryCalls(c, opts, page, total) ==
    [j \in 1 .. Len(FactorySlots(c, opts)) |->
        SlotEv("factory", FactorySlots(c, opts)[j], page, total)]

snapshotPageStreamLengths(streams) ==
    [p \in 1 .. Len(streams) |-> Len(streams[p])]

\* a reordering that leaves every stream as it is
MoveNothingToBackground(streams, originalLengths) == streams

moveAddedPageOpsToBackground(streams, originalLengths) ==
    [p \in 1 .. Len(streams) |->
        IF p > Len(originalLengths) THEN streams[p]
        ELSE LET cutoff == originalLengths[p]
             IN  IF cutoff < 0 \/ cutoff >= Len(streams[p]) THEN streams[p]
                 ELSE SubSeq(streams[p], cutoff + 1, Len(streams[p]))
                          \o SubSeq(streams[p], 1, cutoff)]

(***************************************************************************)
(* Images of the clone.  An <img> is a record:                             *)
(*   origin   "same" or "cross" (no CORS approval: drawing it taints)      *)
(*   src      "url", "data" (a data: URL) or "svg" (data:image/svg...)     *)
(*   loaded   naturalWidth and naturalHeight are non-zero                  *)
(*   large    the natural size exceeds twice the displayed size            *)
(*   styled   style.width / style.height were set by compressCloneImages   *)
(*   redrawn  src was replaced by the canvas's data URL                    *)
(*   complete img.complete: the image is loaded, or it has failed          *)
(*   fired    a load or error event was dispatched after waitForImages set *)
(*            its handlers                                                 *)
(***************************************************************************)
Img(origin, src, loaded, large) ==
    [origin |-> origin, src |-> src, loaded |-> loaded, large |-> large,
     styled |-> FALSE, redrawn |-> FALSE, complete |-> TRUE, fired |-> FALSE]

\* an image still being fetched when the call starts
Loading(img) == [img EXCEPT !.complete = FALSE, !.loaded = FALSE]

\* waitForImages: `if (img.complete && img.naturalWidth > 0) return;`
\* otherwise a promise that only onload or onerror resolves
Settled(img) == (img.complete /\ img.loaded) \/ img.fired

\* await Promise.all(images.map(...)) resolves
waitForImages(images) == \A j \in 1 .. Len(images) : Settled(images[j])

\* the loop body of compressCloneImages on one image:
\* drawImage of a cross-origin image taints the canvas: the style is set,
\* then toDataURL throws and the catch swallows it
CompressImage(img, context) ==
    IF ~img.loaded THEN img
    ELSE IF img.src = "svg" THEN img
    ELSE IF ~img.large /\ img.src = "data" THEN img
    ELSE IF ~context THEN img
    ELSE IF img.origin = "cross" THEN [img EXCEPT !.styled = TRUE]
    ELSE [img EXCEPT !.styled = TRUE, !.src = "data", !.redrawn = TRUE]

\* an image that gets as far as the canvas of compressCloneImages
ReachesCanvas(img) ==
    img.loaded /\ img.src # "svg" /\ ~(~img.large /\ img.src = "data")

\* `context`: canvas.getContext("2d") returns a context
compressCloneImages(images, context) ==
    [j \in 1 .. Len(images) |-> CompressImage(images[j], context)]

(***************************************************************************)
(* The repeated-text border.  A strip is one edge: `chars` characters of   *)
(* charPx pixels each, repeated with gapPx between repetitions in a flex   *)
(* row of widthPx pixels with overflow: hidden.  A glyph is a record       *)
(* [rep, ch, from, to]: character ch of repetition rep, painted on the     *)
(* strip's pixels from .. to.                                              *)
(***************************************************************************)
Max(a, b) == IF a >= b THEN a ELSE b

NoStrip == [reps |-> -1]

\* left and right end of character ch (1-based) of repetition rep (0-based)
\* in the flex row: left to right from pixel 0, or (direction: rtl) right to
\* left from pixel widthPx
GlyphBox(chars, charPx, gapPx, widthPx, rtl, rep, ch) ==
    LET period == chars * charPx + gapPx
    IN  IF rtl
        THEN [from |-> widthPx - rep * period - ch * charPx,
              to |-> widthPx - rep * period - (ch - 1) * charPx]
        ELSE [from |-> rep * period + (ch - 1) * charPx,
              to |-> rep * period + ch * charPx]

\* renderTextEdgeStrip: singleWidth = measure.offsetWidth,
\* reps = Math.ceil(widthPx / (singleWidth + gapPx)) + 2 spans in the
\* wrapper; html2canvas paints what overflow: hidden leaves of each glyph
renderTextEdgeStrip(chars, charPx, gapPx, widthPx, rtl) ==
    LET singleWidth == chars * charPx
        reps == CeilDiv(widthPx, singleWidth + gapPx) + 2
        boxes == {[rep |-> r, ch |-> c,
                   box |-> GlyphBox(chars, charPx, gapPx, widthPx, rtl, r, c)] :
                      r \in 0 .. (reps - 1), c \in 1 .. chars}
    IN  [singleWidth |-> singleWidth,
         reps |-> reps,
         glyphs |-> {[rep |-> b.rep, ch |-> b.ch,
                      from |-> Max(b.box.from, 0),
                      to |-> Min(b.box.to, widthPx)] :
                         b \in {x \in boxes :
                                   x.box.from < widthPx /\ x.box.to > 0}}]

(***************************************************************************)
(* The document's off-screen scaffolding.  A node is [id, kind]: kind is   *)
(* "style" (the <style data-jspdf-utils> of injectRenderResetStyles) or    *)
(* "clone" (the element createPrintClone appends to document.body); every  *)
(* createElement / cloneNode makes a node with a fresh id.                 *)
(***************************************************************************)
NoDom == [nodes |-> {}, next |-> 0]

NoJobs == <<>>

Node(id, kind) == [id |-> id, kind |-> kind]

\* a cleanup that removes whatever scaffolding it finds in the document
ScaffoldingInDocument(job) == dom.nodes

\* what the closures `cleanup` and `removeResetStyles` of a call hold: the
\* clone and the <style> element the call itself made
OwnScaffolding(job) == job.made

(***************************************************************************)
(* Render entry points: generatePDF, generateImagePDF, generateImages,     *)
(* previewImages (and addMarginContent, which generatePDF calls).          *)
(* The pagination of the clone is held here only as the pageContentPx it   *)
(* was run with (splitPx); its steps are modelled further below.           *)
(***************************************************************************)
MaxPages == 3          \* pages doc.html may produce
MaxForced == 3         \* forcedPageCount ranges over halves up to MaxForced + 1/2
MaxCanvasSteps == 6    \* canvas heights are 0 .. MaxCanvasSteps steps
CanvasStep == 1225     \* one step of canvas height, in canvas pixels
MaxMarginSteps == 4    \* margin inputs are 0 .. MaxMarginSteps steps
MarginStep == 350      \* one step of margin, in tenths of a millimetre
MaxRwSteps == 2        \* rendered widths are 0 .. MaxRwSteps steps
RwStep == 397          \* one step of rendered width, in CSS pixels
MaxLoopIter == 4       \* cap on the iterations of a page loop that would not end
OverrideStep == 100    \* one step of margin override, in tenths of a millimetre

Fns == {"generatePDF", "generateImagePDF", "generateImages", "previewImages"}

ForcedInputs ==
    {Undefined, NaN, Inf(1), Inf(-1)}
        \cup {Fin(n, 2) : n \in -2 .. (2 * MaxForced + 1)}

NotRun == Undefined

Range(lo, hi) == [j \in 1 .. (hi - lo + 1) |-> lo + j - 1]

\* generateImagePDF: scale = 3; generateImages (and previewImages): scale = 2
Html2canvasScale(fn) == IF fn = "generateImagePDF" THEN 3 ELSE 2

\* computePageDimensions: contentHeightPx = Math.round(pageContentPx * scale)
ContentHeightPx(lay, html2canvasScale) ==
    IF lay.pageContentPx.k = "fin"
    THEN Fin(lay.pageContentPx.n * html2canvasScale, 1)
    ELSE lay.pageContentPx

\* Math.ceil(canvas.height / dims.contentHeightPx)
ActualTotalPages(canvasHeight, contentHeightPx) ==
    CASE contentHeightPx.k = "nan" -> NaN
      [] contentHeightPx.k = "inf" -> Fin(0, 1)
      [] contentHeightPx.n = 0 ->
            (IF canvasHeight > 0 THEN Inf(1) ELSE NaN)
      [] OTHER -> Fin(CeilDiv(canvasHeight, contentHeightPx.n), 1)

\* the deletePage loop of trimDocumentToForcedPageCount on a page list
TrimFromFront(pages, forcedPageCount) ==
    LET n == trimDocumentToForcedPageCount(Len(pages), forcedPageCount)
    IN  SubSeq(pages, Len(pages) - n + 1, Len(pages))

TrimPages(pages, forcedPageCount) ==
    SubSeq(pages, 1, trimDocumentToForcedPageCount(Len(pages), forcedPageCount))

Settle(how) == [out EXCEPT !.settled = how]

Logged(events) == log \o [j \in 1 .. Len(events) |-> Ev(events[j])]

\* prepare / prepareImageRenderClone: the synchronous steps, in order
PrepareSteps ==
    <<"injectRenderResetStyles", "createPrintClone",
      "normalizeTableAttributes", "computeLayout",
      "splitOversizedTables", "splitOversizedText",
      "insertPageBreakSpacers">>

\* a generatePDF that does not wait for the callback of doc.html
StepsNotAwaitingCallback(c) ==
    <<"cleanup">>
        \o (IF Truthy(c.forced) THEN <<"trimDocumentToForcedPageCount">>
            ELSE <<>>)
        \o (IF Decorated(c) THEN <<"addMarginContent">> ELSE <<"resolve">>)
        \o <<"callback">>

\* generatePDF from the callback of doc.html on: the promise around
\* doc.html resolves, finally cleanup(), the trim, then the decorations or
\* the return
CallbackSteps(c) ==
    <<"callback", "cleanup">>
        \o (IF Truthy(c.forced) THEN <<"trimDocumentToForcedPageCount">>
            ELSE <<>>)
        \o (IF Decorated(c) THEN <<"addMarginContent">> ELSE <<"resolve">>)

\* prepare (generatePDF) / prepareImageRenderClone, up to its first await:
\* injectRenderResetStyles, createPrintClone, normalizeTableAttributes,
\* computeLayout, the splitters and insertPageBreakSpacers, which run with
\* layout.pageContentPx
Prepare ==
    /\ pc = "start"
    /\ attached' = attached \cup {"style", "clone"}
    /\ imgs' = call.images
    /\ layout' = computeLayout(call.renderedWidth, resolveOptions(call))
    /\ splitPx' = layout'.pageContentPx
    /\ log' = Logged(PrepareSteps)
    /\ pc' = IF call.fn = "generatePDF" THEN "compress" ELSE "expand"
    /\ UNCHANGED <<call, doc, loop, out, pageVars>>

\* generatePDF: await compressCloneImages(clone) resolves (it waits for the
\* images only when there are some) and the executor invokes doc.html
CompressImages ==
    /\ pc = "compress"
    /\ waitForImages(imgs)
    /\ imgs' = compressCloneImages(imgs, call.context)
    /\ log' = Logged((IF imgs = <<>> THEN <<>> ELSE <<"waitForImages">>)
                         \o <<"compressCloneImages">>
                         \o (IF ~call.context
                                 /\ \E j \in 1 .. Len(imgs) :
                                        ReachesCanvas(imgs[j])
                             THEN <<"noContext">> ELSE <<>>)
                         \o <<"doc.html">>)
    /\ pc' = "html"
    /\ UNCHANGED <<call, attached, layout, splitPx, doc, loop, out, pageVars>>

\* while the call awaits waitForImages, an image that was being fetched
\* finishes: it loads (onload) or fails (onerror)
ImageEvent ==
    /\ pc \in {"compress", "expand"}
    /\ \E j \in 1 .. Len(imgs), ok \in BOOLEAN :
          /\ ~imgs[j].complete
          /\ imgs' = [imgs EXCEPT ![j].complete = TRUE, ![j].loaded = ok,
                                  ![j].fired = TRUE]
    /\ UNCHANGED <<call, pc, attached, layout, splitPx, doc, loop, out, log,
                   pageVars>>

\* addMarginContent up to its first await: snapshotPageStreamLengths (in
\* generatePDF), then injectRenderResetStyles
EnterMarginContent(pages) ==
    /\ attached' = (attached \ {"style", "clone"}) \cup {"marginStyle"}
    /\ loop' = [i |-> 1, total |-> Fin(Len(pages), 1)]
    /\ pc' = "marginPre"
    /\ out' = out

\* generatePDF: doc.html calls back; finally cleanup(); trim; decorations
HtmlCallback ==
    /\ pc = "html"
    /\ LET rendered == Range(1, call.pages)
           trimmed == IF Truthy(call.forced)
                      THEN TrimPages(rendered, call.forced)
                      ELSE rendered
           streams == [p \in 1 .. Len(trimmed) |-> ContentOps(trimmed[p])]
       IN  /\ doc' = [pages |-> trimmed, streams |-> streams,
                      lengths |-> IF Decorated(call)
                                  THEN snapshotPageStreamLengths(streams)
                                  ELSE <<>>]
           /\ log' = Logged(CallbackSteps(call))
           /\ IF Decorated(call)
              THEN EnterMarginContent(trimmed)
              ELSE /\ attached' = attached \ {"style", "clone"}
                   /\ pc' = "resolved"
                   /\ out' = Settle("resolved")
                   /\ loop' = loop
    /\ UNCHANGED <<call, imgs, layout, splitPx, pageVars>>

\* generatePDF: doc.html throws inside the promise executor; finally cleanup()
HtmlThrows ==
    /\ pc = "html"
    /\ attached' = attached \ {"style", "clone"}
    /\ log' = Logged(<<"failure", "cleanup", "reject">>)
    /\ pc' = "rejected"
    /\ out' = Settle("rejected")
    /\ UNCHANGED <<call, imgs, layout, splitPx, doc, loop, pageVars>>

\* generatePDF: doc.html fails after it has returned (the promise it returns
\* rejects) and never calls back: the executor's promise has no way to
\* settle, nothing after the await runs
HtmlNeverCallsBack ==
    /\ pc = "html"
    /\ log' = Logged(<<"failure">>)
    /\ pc' = "hung"
    /\ UNCHANGED <<call, imgs, attached, layout, splitPx, doc, loop, out,
                   pageVars>>

\* addMarginContent: preRenderStaticSlots and the text border's pre-render
\* resolve
MarginPreRenderDone ==
    /\ pc = "marginPre"
    /\ log' = log \o StaticRenders(call, resolveOptions(call))
                  \o (IF call.textBorder.given /\ ~call.context
                      THEN <<Ev("noContext")>> ELSE <<>>)
    /\ pc' = "marginLoop"
    /\ UNCHANGED <<call, imgs, attached, layout, splitPx, doc, loop, out,
                   pageVars>>

\* addMarginContent: html2canvas rejects on a static slot or on the text
\* border; the function has no finally, removeResetStyles is not reached
MarginPreRenderFails ==
    /\ pc = "marginPre"
    /\ StaticSlots(call, resolveOptions(call)) # <<>> \/ call.textBorder.given
    /\ log' = Logged(<<"failure", "reject">>)
    /\ pc' = "rejected"
    /\ out' = Settle("rejected")
    /\ UNCHANGED <<call, imgs, attached, layout, splitPx, doc, loop,
                   pageVars>>

\* addMarginContent: one iteration of `for (let i = 1; i <= totalPages; i++)`
MarginPage ==
    /\ pc = "marginLoop"
    /\ JsLess(loop.i - 1, loop.total)
    /\ loop' = [loop EXCEPT !.i = loop.i + 1]
    /\ LET opts == resolveOptions(call)
       IN  /\ doc' = [doc EXCEPT !.streams[loop.i] =
                         @ \o PageDecorations(call, opts, loop.i, loop.total)]
           /\ log' = log \o FactoryCalls(call, opts, loop.i, loop.total)
    /\ UNCHANGED <<call, imgs, pc, attached, layout, splitPx, out, pageVars>>

\* addMarginContent: a slot factory throws, or renderSlotToCanvas rejects
MarginPageFails ==
    /\ pc = "marginLoop"
    /\ JsLess(loop.i - 1, loop.total)
    /\ FactorySlots(call, resolveOptions(call)) # <<>>
    /\ log' = Logged(<<"failure", "reject">>)
    /\ pc' = "rejected"
    /\ out' = Settle("rejected")
    /\ UNCHANGED <<call, imgs, attached, layout, splitPx, doc, loop,
                   pageVars>>

\* addMarginContent: loop over; removeResetStyles(); generatePDF moves the
\* added operations to the background and returns doc
MarginDone ==
    /\ pc = "marginLoop"
    /\ ~JsLess(loop.i - 1, loop.total)
    /\ attached' = attached \ {"marginStyle"}
    /\ doc' = [doc EXCEPT !.streams =
                  moveAddedPageOpsToBackground(doc.streams, doc.lengths)]
    /\ log' = Logged(<<"moveAddedPageOpsToBackground", "resolve">>)
    /\ pc' = "resolved"
    /\ out' = Settle("resolved")
    /\ UNCHANGED <<call, imgs, layout, splitPx, loop, pageVars>>

\* prepareImageRenderClone: await expandToFitOverflow(clone) resolves (it
\* waits for the images first), the caller's await resumes and
\* html2canvas(clone) is invoked
ExpandDone ==
    /\ pc = "expand"
    /\ waitForImages(imgs)
    /\ log' = Logged(<<"waitForImages", "expandToFitOverflow", "html2canvas">>)
    /\ pc' = "raster"
    /\ UNCHANGED <<call, imgs, attached, layout, splitPx, doc, loop, out,
                   pageVars>>

\* generateImagePDF / generateImages: `finally { cleanup(); }`
Cleanup == attached' = attached \ {"style", "clone"}

\* html2canvas(clone) resolves with the tall canvas: page dimensions and the
\* total page count are computed, then preRenderStaticSlots is awaited when
\* marginContent is given
RasterDone ==
    /\ pc = "raster"
    /\ LET dims == ContentHeightPx(layout, Html2canvasScale(call.fn))
           actualTotalPages == ActualTotalPages(call.canvasHeight, dims)
           totalPages == resolveTotalPages(actualTotalPages, call.forced)
       IN  loop' = [i |-> 0, total |-> totalPages]
    /\ log' = Logged(<<"canvas">>)
    /\ pc' = IF call.marginContent.given THEN "imagePre" ELSE "imageLoop"
    /\ UNCHANGED <<call, imgs, attached, layout, splitPx, doc, out, pageVars>>

\* html2canvas(clone) rejects
RasterFails ==
    /\ pc = "raster"
    /\ Cleanup
    /\ log' = Logged(<<"failure", "cleanup", "reject">>)
    /\ pc' = "rejected"
    /\ out' = Settle("rejected")
    /\ UNCHANGED <<call, imgs, layout, splitPx, doc, loop, pageVars>>

ImagePreRenderDone ==
    /\ pc = "imagePre"
    /\ log' = log \o StaticRenders(call, resolveOptions(call))
    /\ pc' = "imageLoop"
    /\ UNCHANGED <<call, imgs, attached, layout, splitPx, doc, loop, out,
                   pageVars>>

ImagePreRenderFails ==
    /\ pc = "imagePre"
    /\ StaticSlots(call, resolveOptions(call)) # <<>>
    /\ Cleanup
    /\ log' = Logged(<<"failure", "cleanup", "reject">>)
    /\ pc' = "rejected"
    /\ out' = Settle("rejected")
    /\ UNCHANGED <<call, imgs, layout, splitPx, doc, loop, pageVars>>

\* one iteration of `for (let i = 0; i < totalPages; i++)`: the page canvas,
\* the decorations, the content slice; the page is added to the PDF
\* (generateImagePDF) or pushed to images (generateImages)
ImagePage ==
    /\ pc = "imageLoop"
    /\ call.context
    /\ JsLess(loop.i, loop.total)
    /\ loop.i < MaxLoopIter
    /\ loop' = [loop EXCEPT !.i = loop.i + 1]
    /\ LET opts == resolveOptions(call)
           painted == (IF Decorated(call)
                       THEN PageDecorations(call, opts, loop.i + 1, loop.total)
                       ELSE <<>>)
                          \o ContentSlice(loop.i + 1, call.canvasHeight,
                                          ContentHeightPx(layout,
                                              Html2canvasScale(call.fn)).n)
       IN  /\ log' = log \o (IF Decorated(call)
                             THEN FactoryCalls(call, opts, loop.i + 1,
                                               loop.total)
                             ELSE <<>>)
           /\ IF call.fn = "generateImagePDF"
              THEN /\ doc' = [doc EXCEPT
                                 !.pages = Append(@, loop.i + 1),
                                 !.streams = Append(@, painted)]
                   /\ out' = out
              ELSE /\ out' = [out EXCEPT !.images = Append(@, loop.i + 1)]
                   /\ doc' = [doc EXCEPT !.streams = Append(@, painted)]
    /\ UNCHANGED <<call, imgs, pc, attached, layout, splitPx, pageVars>>

\* createPageSliceCanvas throws "Could not get canvas context", or
\* drawMarginContentOnCanvas rejects
ImagePageFails ==
    /\ pc = "imageLoop"
    /\ JsLess(loop.i, loop.total)
    /\ Cleanup
    /\ log' = Logged(<<"failure", "cleanup", "reject">>)
    /\ pc' = "rejected"
    /\ out' = Settle("rejected")
    /\ UNCHANGED <<call, imgs, layout, splitPx, doc, loop, pageVars>>

\* the loop is over: finally cleanup(); generateImagePDF returns the PDF,
\* generateImages returns images, previewImages appends one <img> per image
ImageLoopDone ==
    /\ pc = "imageLoop"
    /\ ~JsLess(loop.i, loop.total)
    /\ Cleanup
    /\ log' = Logged(<<"cleanup", "resolve">>)
    /\ pc' = "resolved"
    /\ out' = [out EXCEPT !.settled = "resolved",
                          !.preview = IF call.fn = "previewImages"
                                      THEN out.images ELSE out.preview]
    /\ UNCHANGED <<call, imgs, layout, splitPx, doc, loop, pageVars>>

NextRender ==
    \/ Prepare
    \/ CompressImages
    \/ ImageEvent
    \/ HtmlCallback
    \/ HtmlThrows
    \/ HtmlNeverCallsBack
    \/ MarginPreRenderDone
    \/ MarginPreRenderFails
    \/ MarginPage
    \/ MarginPageFails
    \/ MarginDone
    \/ ExpandDone
    \/ RasterDone
    \/ RasterFails
    \/ ImagePreRenderDone
    \/ ImagePreRenderFails
    \/ ImagePage
    \/ ImagePageFails
    \/ ImageLoopDone

\* the pagination engine's variables when a specification does not run it
IdlePagination ==
    /\ source = <<>>
    /\ clone = <<>>
    /\ pageContentPx = 0
    /\ ppc = "idle"
    /\ stack = <<>>
    /\ last = [op |-> "none"]
    /\ fit = [lo |-> -1]
    /\ runs = <<>>
    /\ strip = NoStrip
    /\ dom = NoDom
    /\ jobs = NoJobs

CallStart ==
    /\ pc = "start"
    /\ attached = {}
    /\ imgs = <<>>
    /\ log = <<>>
    /\ layout = NoLayout
    /\ splitPx = NotRun
    /\ doc = [pages |-> <<>>, streams |-> <<>>, lengths |-> <<>>]
    /\ loop = [i |-> 0, total |-> Fin(0, 1)]
    /\ out = [settled |-> "pending", images |-> <<>>, preview |-> <<>>]

\* a decoration: the three options of a call that decorate its pages
Decoration(marginContent, border, textBorder) ==
    [marginContent |-> marginContent, border |-> border,
     textBorder |-> textBorder]

Content(top, right, bottom, left, margin) ==
    [given |-> TRUE,
     slots |-> [s \in Slots |->
                   CASE s = "top" -> top [] s = "right" -> right
                     [] s = "bottom" -> bottom [] OTHER -> left],
     margin |-> margin]

Border(margin) == [given |-> TRUE, margin |-> margin]

\* no decoration, a static header, a page-number footer
Decors ==
    {Decoration(NoContent, NoBorder, NoBorder),
     Decoration(Content("static", "none", "none", "none", NoOverride),
                NoBorder, NoBorder),
     Decoration(Content("none", "none", "factory", "none", NoOverride),
                NoBorder, NoBorder),
     Decoration(NoContent, NoBorder, Border(NoOverride))}

\* no image; a cross-origin photo and a same-origin photo; a photo still
\* being fetched; a photo that had failed before the call
ImageLists ==
    {<<>>,
     <<Img("cross", "url", TRUE, TRUE), Img("same", "url", TRUE, TRUE)>>,
     <<Loading(Img("same", "url", TRUE, TRUE))>>,
     <<Img("same", "url", FALSE, FALSE)>>}

\* what a call is given: generatePDF's doc.html produces call.pages pages;
\* the image renderers' html2canvas returns a canvas of call.canvasHeight
\* rows; `context` is whether canvas.getContext("2d") returns a context
Calls(forcedSet, formats, margins, widths, decors, pageCounts, heights) ==
    {[fn |-> fn, forced |-> forced, format |-> format, margin |-> margin,
      renderedWidth |-> width,
      pages |-> IF fn = "generatePDF" THEN size[1] ELSE 0,
      canvasHeight |-> IF fn = "generatePDF" THEN 0 ELSE size[2],
      marginContent |-> decor.marginContent, border |-> decor.border,
      textBorder |-> decor.textBorder, images |-> images,
      context |-> context] :
        fn \in Fns, forced \in forcedSet, format \in formats,
        margin \in margins, width \in widths, decor \in decors,
        size \in pageCounts \X heights, images \in ImageLists,
        context \in BOOLEAN}

\* calls on an a4 page laid out 794 px wide, with every forcedPageCount
InitRender ==
    /\ call \in Calls(ForcedInputs, {"a4"}, {Undefined}, {2 * RwStep},
                      Decors, 1 .. MaxPages,
                      {k * CanvasStep : k \in 0 .. MaxCanvasSteps})
    /\ CallStart
    /\ IdlePagination

SpecRender == InitRender /\ [][NextRender]_vars

\* calls over the page geometries, rendered width 0 included
InitLayout ==
    /\ call \in Calls({Undefined, Fin(4, 2)}, Formats,
                      {Undefined} \cup
                          {Fin(k * MarginStep, 1) : k \in 0 .. MaxMarginSteps},
                      {k * RwStep : k \in 0 .. MaxRwSteps},
                      Decors, {2}, {2 * CanvasStep})
    /\ call.images \in {<<>>, <<Loading(Img("same", "url", TRUE, TRUE))>>}
    /\ call.context
    /\ CallStart
    /\ IdlePagination

SpecLayout == InitLayout /\ [][NextRender]_vars

\* margin overrides: none, a number, an object with a zero top, an object
\* with a top and a left
Overrides ==
    {NoOverride,
     NumberOverride(OverrideStep),
     SidesOverride([s \in Slots |-> IF s = "top" THEN Fin(0, 1) ELSE Undefined]),
     SidesOverride([s \in Slots |->
                       CASE s = "top" -> Fin(2 * OverrideStep, 1)
                         [] s = "left" -> Fin(3 * OverrideStep, 1)
                         [] OTHER -> Undefined])}

SlotKinds == {"none", "static", "factory"}

Contents ==
    {NoContent} \cup
        {Content(top, right, bottom, "none", m) :
            top \in SlotKinds, right \in {"none", "static"},
            bottom \in SlotKinds, m \in Overrides}

DecorsRich ==
    {Decoration(mc, b, tb) :
        mc \in Contents,
        b \in {NoBorder} \cup {Border(m) : m \in Overrides},
        tb \in {NoBorder, Border(NoOverride)}}

\* the calls of SpecRender with the event loop running every continuation
\* that is ready
LiveRender == InitRender /\ [][NextRender]_vars /\ WF_vars(NextRender)

\* decorated calls: every slot arrangement, with and without a main margin
InitDecor ==
    /\ call \in Calls({Undefined, Fin(4, 2)}, {"a4"},
                      {Undefined, Fin(MarginStep, 1)}, {2 * RwStep},
                      DecorsRich, {MaxPages}, {MaxCanvasSteps * CanvasStep})
    /\ call.images \in {<<>>, <<Loading(Img("same", "url", TRUE, TRUE))>>}
    /\ call.context
    /\ CallStart
    /\ IdlePagination

SpecDecor == InitDecor /\ [][NextRender]_vars

(***************************************************************************)
(* The clone's tree.  An element is a record:                              *)
(*   tag    "TABLE", "IMG", "P" or "DIV"                                   *)
(*   id     the element's id attribute (cloneNode copies it)               *)
(*   rows   table.rows: <<[id, h, th]>>, th = the row holds a <th>         *)
(*   text   the text of a leaf, a sequence of characters                   *)
(*   kids   the child elements                                             *)
(*   h      an explicit height: style.height of a spacer, an image's box   *)
(*   pad    padding-top = padding-bottom                                   *)
(*   lineH  line height; cols: words that fit on a line; pre: white-space  *)
(*          keeps newlines                                                 *)
(* Heights are in sub-pixel units.  Blocks stack vertically in document    *)
(* order without margins; a text box is as tall as its lines.              *)
(***************************************************************************)
SubPx == 4             \* sub-pixel units to the CSS pixel

Element(tag, id) ==
    [tag |-> tag, id |-> id, rows |-> <<>>, text |-> <<>>, kids |-> <<>>,
     h |-> 0, pad |-> 0, lineH |-> 0, cols |-> 1, pre |-> FALSE]

Whitespace == {" ", "\n"}

\* the tokens of a text: runs of non-whitespace characters, and when `pre`
\* each newline too: `match(/\S+|\n/g)`; otherwise
\* `split(/\s+/).filter(Boolean)`
RECURSIVE Scan(_, _, _)
Scan(text, cur, pre) ==
    IF text = <<>> THEN (IF cur = <<>> THEN <<>> ELSE <<cur>>)
    ELSE LET c == Head(text)
         IN  IF c \notin Whitespace
             THEN Scan(Tail(text), Append(cur, c), pre)
             ELSE (IF cur = <<>> THEN <<>> ELSE <<cur>>)
                  \o (IF pre /\ c = "\n" THEN << <<c>> >> ELSE <<>>)
                  \o Scan(Tail(text), <<>>, pre)

Tokenize(text, pre) == Scan(text, <<>>, pre)

\* words.join(" ")
RECURSIVE Join(_)
Join(words) ==
    IF words = <<>> THEN <<>>
    ELSE IF Len(words) = 1 THEN words[1]
    ELSE words[1] \o <<" ">> \o Join(Tail(words))

\* words.slice(from, to), indices counted from 0
Slice(words, from, to) == SubSeq(words, from + 1, to)

\* the lines a text takes when `cols` words fit on a line; a kept newline
\* ends the line
RECURSIVE Lines(_, _, _, _)
Lines(tokens, cols, used, n) ==
    IF tokens = <<>> THEN n
    ELSE IF Head(tokens) = <<"\n">>
         THEN Lines(Tail(tokens), cols, 0, IF used = 0 THEN n + 1 ELSE n)
         ELSE IF used = 0 \/ used >= cols
              THEN Lines(Tail(tokens), cols, 1, n + 1)
              ELSE Lines(Tail(tokens), cols, used + 1, n)

\* getBoundingClientRect().height of a padding-free box holding `text`,
\* styled as `el` (the measuring element, a chunk <div>)
TextHeight(text, el) ==
    el.lineH * Lines(Tokenize(text, el.pre), el.cols, 0, 0)

RECURSIVE SumH(_)
SumH(rows) == IF rows = <<>> THEN 0 ELSE Head(rows).h + SumH(Tail(rows))

\* getBoundingClientRect().height of an element
RECURSIVE Height(_)
Height(el) ==
    LET KidsHeight[j \in 0 .. Len(el.kids)] ==
            IF j = 0 THEN 0 ELSE KidsHeight[j - 1] + Height(el.kids[j])
    IN  IF el.tag = "TABLE" THEN SumH(el.rows)
        ELSE IF el.h > 0 THEN el.h
        ELSE 2 * el.pad
             + (IF el.kids # <<>> THEN KidsHeight[Len(el.kids)]
                ELSE TextHeight(el.text, el))

\* offsetHeight: the height rounded to a whole pixel
Round(h) == ((2 * h + SubPx) \div (2 * SubPx)) * SubPx

OffsetHeight(el) == Round(Height(el))

RowOffsetHeight(row) == Round(row.h)

RECURSIVE SumOffsetH(_)
SumOffsetH(rows) ==
    IF rows = <<>> THEN 0
    ELSE RowOffsetHeight(Head(rows)) + SumOffsetH(Tail(rows))

RECURSIVE NodeAt(_, _)
NodeAt(el, path) ==
    IF path = <<>> THEN el ELSE NodeAt(el.kids[Head(path)], Tail(path))

RECURSIVE SetNodeAt(_, _, _)
SetNodeAt(el, path, new) ==
    IF path = <<>> THEN new
    ELSE [el EXCEPT !.kids[Head(path)] =
                        SetNodeAt(el.kids[Head(path)], Tail(path), new)]

\* top of the child at `path` below `el`, whose own top is `base`
RECURSIVE TopOf(_, _, _)
TopOf(el, base, path) ==
    LET j == Head(path)
        Before[m \in 0 .. j - 1] ==
            IF m = 0 THEN 0 ELSE Before[m - 1] + Height(el.kids[m])
        top == base + el.pad + Before[j - 1]
    IN  IF Len(path) = 1 THEN top ELSE TopOf(el.kids[j], top, Tail(path))

(***************************************************************************)
(* parseTableStructure, splitOversizedTables                               *)
(***************************************************************************)
\* parseTableStructure; the table has at least one row
HasHeader(table) == table.rows[1].th
HeaderRows(table) == IF HasHeader(table) THEN <<table.rows[1]>> ELSE <<>>
BodyRows(table) == IF HasHeader(table) THEN Tail(table.rows) ELSE table.rows
HeaderHeight(table) ==
    IF HasHeader(table) THEN RowOffsetHeight(table.rows[1]) ELSE 0

\* the greedy grouping loop of splitOversizedTables
RECURSIVE GroupRows(_, _, _, _)
GroupRows(rows, group, groupHeight, maxRowsHeight) ==
    IF rows = <<>> THEN (IF Len(group) > 0 THEN <<group>> ELSE <<>>)
    ELSE LET row == Head(rows)
             rh == RowOffsetHeight(row)
         IN  IF groupHeight + rh > maxRowsHeight /\ Len(group) > 0
             THEN <<group>>
                  \o GroupRows(Tail(rows), <<row>>, rh, maxRowsHeight)
             ELSE GroupRows(Tail(rows), Append(group, row),
                            groupHeight + rh, maxRowsHeight)

\* fragments grouped without the 2 px slack
TableFragmentsNoSlack(table, limit) ==
    LET groups == GroupRows(BodyRows(table), <<>>, 0,
                            limit - HeaderHeight(table))
    IN  [g \in 1 .. Len(groups) |->
            [table EXCEPT !.rows = HeaderRows(table) \o groups[g]]]

\* the fragments that replace one oversized table
TableFragments(table, limit) ==
    LET maxRowsHeight == limit - HeaderHeight(table) - 2 * SubPx
        groups == GroupRows(BodyRows(table), <<>>, 0, maxRowsHeight)
    IN  [g \in 1 .. Len(groups) |->
            [table EXCEPT !.rows = HeaderRows(table) \o groups[g]]]

\* splitOversizedTables(container, pageContentPx) on the container's children
RECURSIVE SplitTablesIn(_, _)
SplitTablesIn(kids, limit) ==
    IF kids = <<>> THEN <<>>
    ELSE LET el == Head(kids)
         IN  (IF el.tag = "TABLE" /\ OffsetHeight(el) > limit
                    /\ Len(el.rows) > 0
              THEN TableFragments(el, limit)
              ELSE <<el>>)
             \o SplitTablesIn(Tail(kids), limit)

splitOversizedTables(container, limit) ==
    [container EXCEPT !.kids = SplitTablesIn(container.kids, limit)]

(***************************************************************************)
(* binarySearchWordFit, splitOversizedText                                 *)
(***************************************************************************)
\* the while loop of binarySearchWordFit; indices count from 0 as in the code
RECURSIVE WordFitLoop(_, _, _, _, _, _)
WordFitLoop(el, words, maxHeight, startIndex, lo, hi) ==
    IF lo < hi
    THEN LET mid == CeilDiv(lo + hi, 2)
         IN  IF TextHeight(Join(Slice(words, startIndex, mid)), el) <= maxHeight
             THEN WordFitLoop(el, words, maxHeight, startIndex, mid, hi)
             ELSE WordFitLoop(el, words, maxHeight, startIndex, lo, mid - 1)
    ELSE lo

\* a search that never tries the whole rest of the words
WordFitSkippingLast(el, words, maxHeight, startIndex) ==
    WordFitLoop(el, words, maxHeight, startIndex, startIndex + 1,
                Len(words) - 1)

\* `el` stands for the measuring element: the tag and style of the element
\* being split, padding and margin 0
binarySearchWordFit(el, words, maxHeight, startIndex) ==
    WordFitLoop(el, words, maxHeight, startIndex, startIndex + 1, Len(words))

\* a chunk that loses its last word
ChunkShort(el, words) ==
    [Element("DIV", 0) EXCEPT
        !.text = Join(IF Len(words) > 1 THEN SubSeq(words, 1, Len(words) - 1)
                      ELSE words),
        !.lineH = el.lineH, !.cols = el.cols, !.pre = el.pre]

\* a chunk: document.createElement("div") with textContent; it inherits the
\* wrapper's font, white-space and content width
Chunk(el, words) ==
    [Element("DIV", 0) EXCEPT !.text = Join(words), !.lineH = el.lineH,
                              !.cols = el.cols, !.pre = el.pre]

\* the `while (start < words.length)` loop of splitOversizedText
RECURSIVE TextChunks(_, _, _, _)
TextChunks(el, words, limit, start) ==
    IF start < Len(words)
    THEN LET lo == binarySearchWordFit(el, words, limit, start)
         IN  <<Chunk(el, Slice(words, start, lo))>>
             \o TextChunks(el, words, limit, lo)
    ELSE <<>>

\* splitOversizedText(container, pageContentPx)
RECURSIVE splitOversizedText(_, _)
splitOversizedText(container, limit) ==
    LET SplitOne(el) ==
            IF OffsetHeight(el) <= limit \/ el.tag = "TABLE" THEN el
            ELSE IF Len(el.kids) > 0 THEN splitOversizedText(el, limit)
            ELSE [el EXCEPT !.text = <<>>,
                            !.kids = TextChunks(el, Tokenize(el.text, el.pre),
                                                limit, 0)]
    IN  [container EXCEPT
            !.kids = [j \in 1 .. Len(container.kids) |->
                         SplitOne(container.kids[j])]]

(***************************************************************************)
(* splitTableAtBoundary, splitTextAtBoundary: the elements that replace    *)
(* the element, or <<>> when the function returns false                    *)
(***************************************************************************)
\* the fitCount loop of splitTableAtBoundary
RECURSIVE FitCount(_, _, _)
FitCount(rows, totalHeight, maxBodyHeight) ==
    IF rows = <<>> THEN 0
    ELSE IF totalHeight + RowOffsetHeight(Head(rows)) > maxBodyHeight THEN 0
    ELSE 1 + FitCount(Tail(rows),
                      totalHeight + RowOffsetHeight(Head(rows)), maxBodyHeight)

\* the second table starts one row late
SplitTableDroppingRow(table, availableHeight) ==
    IF Len(table.rows) = 0 THEN <<>>
    ELSE LET bodyRows == BodyRows(table)
             maxBodyHeight ==
                 availableHeight - HeaderHeight(table) - 2 * SubPx
             fitCount == FitCount(bodyRows, 0, maxBodyHeight)
         IN  IF Len(bodyRows) < 2 THEN <<>>
             ELSE IF maxBodyHeight <= 0 THEN <<>>
             ELSE IF fitCount = 0 \/ fitCount = Len(bodyRows) THEN <<>>
             ELSE << [table EXCEPT !.rows = HeaderRows(table)
                                       \o SubSeq(bodyRows, 1, fitCount)],
                     [table EXCEPT !.rows = HeaderRows(table)
                                       \o SubSeq(bodyRows, fitCount + 2,
                                                 Len(bodyRows))] >>

splitTableAtBoundary(table, availableHeight) ==
    IF Len(table.rows) = 0 THEN <<>>
    ELSE LET bodyRows == BodyRows(table)
             maxBodyHeight ==
                 availableHeight - HeaderHeight(table) - 2 * SubPx
             fitCount == FitCount(bodyRows, 0, maxBodyHeight)
         IN  IF Len(bodyRows) < 2 THEN <<>>
             ELSE IF maxBodyHeight <= 0 THEN <<>>
             ELSE IF fitCount = 0 \/ fitCount = Len(bodyRows) THEN <<>>
             ELSE << [table EXCEPT !.rows = HeaderRows(table)
                                       \o SubSeq(bodyRows, 1, fitCount)],
                     [table EXCEPT !.rows = HeaderRows(table)
                                       \o SubSeq(bodyRows, fitCount + 1,
                                                 Len(bodyRows))] >>

\* a split that wants three words
SplitTextNeedsThreeWords(el, availableHeight) ==
    IF el.tag = "TABLE" \/ el.tag = "IMG" THEN <<>>
    ELSE IF Len(el.kids) > 0 THEN <<>>
    ELSE LET words == Tokenize(el.text, el.pre)
             lo == binarySearchWordFit(el, words, availableHeight, 0)
         IN  IF Len(words) < 3 THEN <<>>
             ELSE IF TextHeight(words[1], el) > availableHeight THEN <<>>
             ELSE IF lo >= Len(words) THEN <<>>
             ELSE << [el EXCEPT !.text = <<>>,
                                !.kids = << Chunk(el, Slice(words, 0, lo)),
                                            Chunk(el, Slice(words, lo,
                                                            Len(words))) >>] >>

splitTextAtBoundary(el, availableHeight) ==
    IF el.tag = "TABLE" \/ el.tag = "IMG" THEN <<>>
    ELSE IF Len(el.kids) > 0 THEN <<>>
    ELSE LET words == Tokenize(el.text, el.pre)
             lo == binarySearchWordFit(el, words, availableHeight, 0)
         IN  IF Len(words) < 2 THEN <<>>
             ELSE IF TextHeight(words[1], el) > availableHeight THEN <<>>
             ELSE IF lo >= Len(words) THEN <<>>
             ELSE << [el EXCEPT !.text = <<>>,
                                !.kids = << Chunk(el, Slice(words, 0, lo)),
                                            Chunk(el, Slice(words, lo,
                                                            Len(words))) >>] >>

(***************************************************************************)
(* The pagination pipeline of prepare / prepareImageRenderClone:           *)
(* createPrintClone, splitOversizedTables, splitOversizedText,             *)
(* insertPageBreakSpacers.  insertPageBreakSpacers is modelled one loop    *)
(* iteration at a time; `stack` holds its activations, innermost first.    *)
(***************************************************************************)
Limit == pageContentPx * SubPx

ReplaceAt(kids, j, new) ==
    SubSeq(kids, 1, j - 1) \o new \o SubSeq(kids, j + 1, Len(kids))

\* createMeasureElement: an element of the same tag, absolutely positioned
\* and hidden, appended to the container; it has no id attribute, and the
\* id -1 stands for its identity as a node
MeasureElement(el) ==
    [Element(el.tag, -1) EXCEPT !.lineH = el.lineH, !.cols = el.cols,
                                !.pre = el.pre]

IsMeasure(el) == el.id = -1

createMeasureElement(kids, el) == Append(kids, MeasureElement(el))

\* a measuring element that is left where it is
MeasureLeftBehind(kids) == kids

\* measure.remove()
RemoveMeasure(kids) == SelectSeq(kids, LAMBDA k : ~IsMeasure(k))

\* the container's children when splitTextAtBoundary(kids[i], container,
\* availableHeight) returns: the calls that get past the first three
\* returns append a measuring element and remove it again
ChildrenAfterTextSplit(kids, i, availableHeight) ==
    LET el == kids[i]
        split == splitTextAtBoundary(el, availableHeight)
    IN  IF el.tag = "TABLE" \/ el.tag = "IMG" THEN kids
        ELSE IF Len(el.kids) > 0 THEN kids
        ELSE IF Len(Tokenize(el.text, el.pre)) < 2 THEN kids
        ELSE ReplaceAt(RemoveMeasure(createMeasureElement(kids, el)), i,
                       IF split = <<>> THEN <<el>> ELSE split)

\* the container's children when the split tried on the straddling child
\* kids[i] has returned false: splitTableAtBoundary changes nothing before
\* it returns true
ChildrenAfterFailedSplit(kids, i, availableHeight) ==
    IF kids[i].tag = "TABLE" THEN kids
    ELSE ChildrenAfterTextSplit(kids, i, availableHeight)

Spacer(height) == [Element("DIV", 0) EXCEPT !.h = height]

\* a spacer height rounded down
SpacerHeightFloored(remainingSpace) == FloorDiv(remainingSpace, SubPx) * SubPx

\* spacer.style.height = Math.ceil(pageEnd - childTop) + "px"
SpacerHeight(remainingSpace) == CeilDiv(remainingSpace, SubPx) * SubPx

\* (Math.floor(childTop / pageContentPx) + 1) * pageContentPx
PageEnd(childTop, limit) == (FloorDiv(childTop, limit) + 1) * limit

\* childBottom > pageEnd + 0.5
Straddles(childTop, childBottom, limit) ==
    2 * childBottom > 2 * PageEnd(childTop, limit) + SubPx

NoOp == [op |-> "none", path |-> <<>>, i |-> 0, node |-> Element("DIV", 0),
         remaining |-> 0, pageEnd |-> 0]

\* steps that are handed the caller's element instead of the clone
OnSource(tree) == source' = tree /\ clone' = clone

\* prepare hands `clone` to normalizeTableAttributes, the splitters and
\* insertPageBreakSpacers: what they change is the clone's tree
OnClone(tree) == clone' = tree /\ source' = source

\* no call of binarySearchWordFit
NoFit == [lo |-> -1]

CreatePrintClone ==
    /\ ppc = "start"
    /\ clone' = source
    /\ ppc' = "tables"
    /\ UNCHANGED <<source, pageContentPx, stack, last, fit, runs, strip, dom, jobs, renderVars>>

OversizeTables ==
    /\ ppc = "tables"
    /\ OnClone(splitOversizedTables(clone, Limit))
    /\ ppc' = "text"
    /\ UNCHANGED <<pageContentPx, stack, last, fit, runs, strip, dom, jobs, renderVars>>

OversizeText ==
    /\ ppc = "text"
    /\ OnClone(splitOversizedText(clone, Limit))
    /\ ppc' = "spacers"
    /\ stack' = <<[path |-> <<>>, i |-> 1]>>
    /\ UNCHANGED <<pageContentPx, last, fit, runs, strip, dom, jobs, renderVars>>

\* what one iteration of the while loop of insertPageBreakSpacers does with
\* the child at index i of the container at `path`
Decide(root, path, i, limit) ==
    LET container == NodeAt(root, path)
        child == container.kids[i]
        childTop == TopOf(root, 0, Append(path, i))
        childBottom == childTop + Height(child)
        pageEnd == PageEnd(childTop, limit)
        remainingSpace == pageEnd - childTop
        tables == splitTableAtBoundary(child, remainingSpace)
        texts == splitTextAtBoundary(child, remainingSpace)
        seen == [NoOp EXCEPT !.path = path, !.i = i, !.node = child,
                             !.remaining = remainingSpace,
                             !.pageEnd = pageEnd]
    IN  IF ~Straddles(childTop, childBottom, limit)
        THEN [seen EXCEPT !.op = "skip"]
        ELSE IF child.tag = "TABLE" /\ tables # <<>>
        THEN [seen EXCEPT !.op = "tableSplit"]
        ELSE IF child.tag # "TABLE" /\ Len(child.kids) > 0
        THEN [seen EXCEPT !.op = "recurse"]
        ELSE IF child.tag # "TABLE" /\ texts # <<>>
        THEN [seen EXCEPT !.op = "textSplit"]
        ELSE IF Height(child) <= limit
        THEN [seen EXCEPT !.op = "spacer"]
        ELSE [seen EXCEPT !.op = "tooTall"]

\* the container's children after the iteration decided as `d`
KidsAfter(kids, d) ==
    CASE d.op = "tableSplit" ->
            ReplaceAt(kids, d.i, splitTableAtBoundary(d.node, d.remaining))
      [] d.op = "textSplit" ->
            ChildrenAfterTextSplit(kids, d.i, d.remaining)
      [] d.op = "spacer" ->
            ReplaceAt(ChildrenAfterFailedSplit(kids, d.i, d.remaining), d.i,
                      <<Spacer(SpacerHeight(d.remaining)), d.node>>)
      [] d.op = "tooTall" ->
            ChildrenAfterFailedSplit(kids, d.i, d.remaining)
      [] OTHER -> kids

\* a cursor that skips the spacer only and examines the pushed child again
CursorOnPushedChild(d) ==
    CASE d.op \in {"tableSplit", "textSplit"} -> d.i
      [] OTHER -> d.i + 1

\* the cursor after the iteration: a split re-checks the same index, a
\* spacer skips the spacer and the child
CursorAfter(d) ==
    CASE d.op \in {"tableSplit", "textSplit"} -> d.i
      [] d.op = "spacer" -> d.i + 2
      [] OTHER -> d.i + 1

SpacerStep ==
    /\ ppc = "spacers"
    /\ stack # <<>>
    /\ LET f == Head(stack)
           container == NodeAt(clone, f.path)
       IN  IF f.i > Len(container.kids)
           THEN /\ stack' = Tail(stack)
                /\ last' = [NoOp EXCEPT !.op = "return", !.path = f.path]
                /\ UNCHANGED <<source, clone>>
           ELSE LET d == Decide(clone, f.path, f.i, Limit)
                    here == [f EXCEPT !.i = CursorAfter(d)]
                IN  /\ last' = d
                    /\ OnClone(SetNodeAt(clone, f.path,
                           [container EXCEPT
                               !.kids = KidsAfter(container.kids, d)]))
                    /\ stack' = IF d.op = "recurse"
                                THEN <<[path |-> Append(f.path, f.i),
                                        i |-> 1], here>> \o Tail(stack)
                                ELSE <<here>> \o Tail(stack)
    /\ UNCHANGED <<pageContentPx, ppc, fit, runs, strip, dom, jobs, renderVars>>

PaginateDone ==
    /\ ppc = "spacers"
    /\ stack = <<>>
    /\ ppc' = "done"
    /\ UNCHANGED <<source, clone, pageContentPx, stack, last, fit, runs, strip, dom, jobs, renderVars>>

NextPaginate ==
    \/ CreatePrintClone
    \/ OversizeTables
    \/ OversizeText
    \/ SpacerStep
    \/ PaginateDone

\* a second call on the same source: createPrintClone starts from the
\* source again; nothing of the first call is kept but its result, held
\* here for comparison
MaxRuns == 2           \* calls made in sequence on one source

RunAgain ==
    /\ ppc = "done"
    /\ Len(runs) < MaxRuns - 1
    /\ runs' = Append(runs, clone)
    /\ clone' = Element("DIV", 0)
    /\ ppc' = "start"
    /\ stack' = <<>>
    /\ last' = NoOp
    /\ UNCHANGED <<source, pageContentPx, fit, strip, dom, jobs, renderVars>>

NextTwice ==
    \/ NextPaginate
    \/ RunAgain

\* the render call's variables when a specification runs the pagination only
IdleRender ==
    /\ call = [fn |-> "generatePDF", forced |-> Undefined,
               format |-> "a4", margin |-> Undefined, renderedWidth |-> 0,
               pages |-> 0, canvasHeight |-> 0, marginContent |-> NoContent,
               border |-> NoBorder, textBorder |-> NoBorder, images |-> <<>>,
               context |-> TRUE]
    /\ CallStart

(***************************************************************************)
(* The source trees the pagination is run on                               *)
(***************************************************************************)
PagePx == 8            \* pageContentPx, in CSS pixels
MaxRows == 4           \* body rows of a table
MaxWords == 4          \* words of a text block
MaxKids == 3           \* leaf blocks of a container
MaxFillers == 4        \* the block before the one examined: 0 .. MaxFillers steps
FillerStep == 7        \* one step of that block's height, in sub-pixel units
MaxTextLen == 5        \* characters of a text given character by character

SeqsUpTo(S, n) == UNION {[1 .. m -> S] : m \in 0 .. n}

Root(kids) == [Element("DIV", 0) EXCEPT !.kids = kids]

Image(height) == [Element("IMG", 0) EXCEPT !.h = height]

Fillers == {Image(j * FillerStep) : j \in 0 .. MaxFillers}

\* row heights: 2 px, 2.25 px, 2.5 px and a row taller than the page
RowHeights ==
    {2 * SubPx, 2 * SubPx + 1, 2 * SubPx + SubPx \div 2, (PagePx + 1) * SubPx}

Table(hasHeader, heights) ==
    [Element("TABLE", 1) EXCEPT
        !.rows = (IF hasHeader THEN <<[id |-> 0, h |-> SubPx, th |-> TRUE]>>
                  ELSE <<>>)
                 \o [j \in 1 .. Len(heights) |->
                        [id |-> j, h |-> heights[j], th |-> FALSE]]]

Tables == {Table(hd, hs) : hd \in BOOLEAN, hs \in SeqsUpTo(RowHeights, MaxRows)}

Letters == <<"a", "b", "c", "d", "e", "f">>

\* n distinct one-letter words separated by single spaces
WordsText(n) == Join([j \in 1 .. n |-> <<Letters[j]>>])

\* line heights: 3 px, 3.25 px and a line taller than the page
LineHeights == {3 * SubPx, 3 * SubPx + 1, (PagePx + 1) * SubPx}

TextBlock(text, lineH, cols, pad, pre) ==
    [Element("P", 2) EXCEPT !.text = text, !.lineH = lineH, !.cols = cols,
                            !.pad = pad, !.pre = pre]

Texts ==
    {TextBlock(WordsText(n), lh, c, p, FALSE) :
        n \in 0 .. MaxWords, lh \in LineHeights, c \in {1, 2},
        p \in {0, SubPx \div 2}}

Box(el) == [Element("DIV", 3) EXCEPT !.kids = <<el>>]

Blocks == Tables \cup Texts \cup {Box(el) : el \in Tables \cup Texts}

\* a block of any kind after a filler
InitBlocks ==
    /\ source \in {Root(<<f, b>>) : f \in Fillers, b \in Blocks}
    /\ clone = Root(<<>>)
    /\ pageContentPx = PagePx
    /\ ppc = "start"
    /\ stack = <<>>
    /\ last = NoOp
    /\ fit = NoFit
    /\ runs = <<>>
    /\ strip = NoStrip
    /\ dom = NoDom
    /\ jobs = NoJobs
    /\ IdleRender

SpecBlocks == InitBlocks /\ [][NextPaginate]_vars

\* the same blocks, paginated twice in sequence
SpecTwice == InitBlocks /\ [][NextTwice]_vars

\* a table of uniform body rows under a header row, alone in its container
PackPagePx == 105      \* pageContentPx of the packing scenario
PackRows == 50         \* body rows of its table
PackRowPx == 10        \* height of a body row
MaxHeaderPx == 12      \* the header row is 1 .. MaxHeaderPx pixels high

UniformTable(headerPx, rowPx, n) ==
    [Element("TABLE", 1) EXCEPT
        !.rows = <<[id |-> 0, h |-> headerPx * SubPx, th |-> TRUE]>>
                 \o [j \in 1 .. n |->
                        [id |-> j, h |-> rowPx * SubPx, th |-> FALSE]]]

InitPack ==
    /\ source \in {Root(<<UniformTable(h, PackRowPx, n)>>) :
                      h \in 1 .. MaxHeaderPx,
                      n \in {PackRows \div 2, PackRows}}
    /\ clone = Root(<<>>)
    /\ pageContentPx = PackPagePx
    /\ ppc = "start"
    /\ stack = <<>>
    /\ last = NoOp
    /\ fit = NoFit
    /\ runs = <<>>
    /\ strip = NoStrip
    /\ dom = NoDom
    /\ jobs = NoJobs
    /\ IdleRender

SpecPack == InitPack /\ [][NextPaginate]_vars

\* calls of binarySearchWordFit: short texts on lines of one to three words
\* under every limit up to the text's height, from every start; and a
\* paragraph of ScenarioWords words on lines of ScenarioCols words under
\* limits of ScenarioLines lines and a little more (the paragraph of 200
\* words that fits at 120 and overflows at 150, at a tenth of its size)
MaxFitWords == 5       \* words of a short text
MaxFitCols == 3        \* words that fit on one of its lines
ScenarioWords == 20    \* words of the long paragraph
ScenarioCols == 1      \* words that fit on one of its lines
ScenarioLines == 12    \* lines that fit under the smallest of its limits

FitCall(el, words, maxHeight, start) ==
    [el |-> el, words |-> words, maxHeight |-> maxHeight, start |-> start,
     lo |-> -1]

Measure(cols) == TextBlock(<<>>, 3 * SubPx, cols, 0, FALSE)

ShortFitCalls ==
    {FitCall(Measure(cols), Tokenize(WordsText(n), FALSE), mh, st) :
        cols \in 1 .. MaxFitCols, n \in 1 .. MaxFitWords,
        mh \in 0 .. (MaxFitWords * 3 * SubPx + 1), st \in 0 .. (MaxFitWords - 1)}

LongFitCalls ==
    {FitCall(Measure(ScenarioCols), [j \in 1 .. ScenarioWords |-> <<"a">>],
             lines * 3 * SubPx + extra, 0) :
        lines \in ScenarioLines .. (ScenarioLines + 2), extra \in 0 .. 1}

\* splitOversizedText / splitTextAtBoundary: one call of binarySearchWordFit
SearchWordFit ==
    /\ fit.lo = -1
    /\ fit' = [fit EXCEPT !.lo = binarySearchWordFit(fit.el, fit.words,
                                                    fit.maxHeight, fit.start)]
    /\ UNCHANGED <<source, clone, pageContentPx, ppc, stack, last, runs, strip, dom, jobs,
                   renderVars>>

NextFit == SearchWordFit

InitFit ==
    /\ fit \in {c \in ShortFitCalls : c.start < Len(c.words)} \cup LongFitCalls
    /\ source = Root(<<>>)
    /\ clone = Root(<<>>)
    /\ pageContentPx = PagePx
    /\ ppc = "idle"
    /\ stack = <<>>
    /\ last = NoOp
    /\ runs = <<>>
    /\ strip = NoStrip
    /\ dom = NoDom
    /\ jobs = NoJobs
    /\ IdleRender

SpecFit == InitFit /\ [][NextFit]_vars

(***************************************************************************)
(* The edges of a text border                                              *)
(***************************************************************************)
MaxChars == 5          \* characters of the repeated text
MaxCharPx == 3         \* width of a character, in pixels
MaxGapPx == 2          \* gap between repetitions, in pixels
MaxEdgePx == 40        \* length of an edge, in pixels

StripCall(chars, charPx, gapPx, widthPx, rtl) ==
    [chars |-> chars, charPx |-> charPx, gapPx |-> gapPx, widthPx |-> widthPx,
     rtl |-> rtl, reps |-> -1]

\* drawTextBorderOnCanvas: one call of renderTextEdgeStrip
RenderStrip ==
    /\ strip.reps = -1
    /\ LET r == renderTextEdgeStrip(strip.chars, strip.charPx, strip.gapPx,
                                    strip.widthPx, strip.rtl)
       IN  strip' = [chars |-> strip.chars, charPx |-> strip.charPx,
                     gapPx |-> strip.gapPx, widthPx |-> strip.widthPx,
                     rtl |-> strip.rtl, reps |-> r.reps,
                     singleWidth |-> r.singleWidth, glyphs |-> r.glyphs]
    /\ UNCHANGED <<source, clone, pageContentPx, ppc, stack, last, fit, runs,
                   dom, jobs, renderVars>>

NextStrip == RenderStrip

InitStrip ==
    /\ strip \in {StripCall(n, w, g, e, rtl) :
                     n \in 1 .. MaxChars, w \in 1 .. MaxCharPx,
                     g \in 0 .. MaxGapPx, e \in 1 .. MaxEdgePx,
                     rtl \in BOOLEAN}
    /\ source = <<>>
    /\ clone = <<>>
    /\ pageContentPx = 0
    /\ ppc = "idle"
    /\ stack = <<>>
    /\ last = [op |-> "none"]
    /\ fit = [lo |-> -1]
    /\ runs = <<>>
    /\ dom = NoDom
    /\ jobs = NoJobs
    /\ IdleRender

SpecStrip == InitStrip /\ [][NextStrip]_vars

(***************************************************************************)
(* Render calls that overlap: each call runs its synchronous stretches     *)
(* one at a time, and the other call's stretches run in between at the     *)
(* awaits.                                                                 *)
(***************************************************************************)
MaxJobs == 2           \* calls in flight
MaxCleanups == 2       \* times a call's cleanup is invoked

Job(fn, decorated) ==
    [fn |-> fn, decorated |-> decorated, pc |-> "start", made |-> {},
     marginStyle |-> {}, cleanups |-> 0]

\* prepare / prepareImageRenderClone up to the first await:
\* injectRenderResetStyles and createPrintClone attach one node each
JobPrepare(c) ==
    /\ jobs[c].pc = "start"
    /\ LET style == Node(dom.next, "style")
           print == Node(dom.next + 1, "clone")
       IN  /\ dom' = [nodes |-> dom.nodes \cup {style, print},
                      next |-> dom.next + 2]
           /\ jobs' = [jobs EXCEPT
                          ![c].made = {style, print},
                          ![c].pc = IF jobs[c].fn = "generatePDF"
                                    THEN "compress" ELSE "expand"]

\* the await of compressCloneImages / expandToFitOverflow is over and the
\* renderer (doc.html, html2canvas) has been invoked
JobRender(c) ==
    /\ jobs[c].pc \in {"compress", "expand"}
    /\ jobs' = [jobs EXCEPT ![c].pc = "render"]
    /\ dom' = dom

\* cleanup(): clone.remove(); removeResetStyles() -- in the finally of the
\* call, and again whenever the caller of prepare invokes it
JobCleanup(c) ==
    /\ jobs[c].pc \in {"render", "cleaned"}
    /\ jobs[c].cleanups < MaxCleanups
    /\ dom' = [dom EXCEPT !.nodes = @ \ OwnScaffolding(jobs[c])]
    /\ jobs' = [jobs EXCEPT ![c].pc = "cleaned", ![c].cleanups = @ + 1]

\* generatePDF with decorations: addMarginContent injects a reset style of
\* its own
JobMarginContent(c) ==
    /\ jobs[c].pc = "cleaned"
    /\ jobs[c].fn = "generatePDF"
    /\ jobs[c].decorated
    /\ LET style == Node(dom.next, "style")
       IN  /\ dom' = [nodes |-> dom.nodes \cup {style}, next |-> dom.next + 1]
           /\ jobs' = [jobs EXCEPT ![c].pc = "margin",
                                   ![c].marginStyle = {style}]

\* addMarginContent: removeResetStyles() at its end
JobMarginDone(c) ==
    /\ jobs[c].pc = "margin"
    /\ dom' = [dom EXCEPT !.nodes = @ \ jobs[c].marginStyle]
    /\ jobs' = [jobs EXCEPT ![c].pc = "done"]

NextOverlap ==
    /\ \E c \in 1 .. Len(jobs) :
          \/ JobPrepare(c)
          \/ JobRender(c)
          \/ JobCleanup(c)
          \/ JobMarginContent(c)
          \/ JobMarginDone(c)
    /\ UNCHANGED <<source, clone, pageContentPx, ppc, stack, last, fit, runs,
                   strip, renderVars>>

InitOverlap ==
    /\ jobs \in [1 .. MaxJobs -> {Job(fn, d) : fn \in Fns, d \in BOOLEAN}]
    /\ dom = NoDom
    /\ source = <<>>
    /\ clone = <<>>
    /\ pageContentPx = 0
    /\ ppc = "idle"
    /\ stack = <<>>
    /\ last = [op |-> "none"]
    /\ fit = [lo |-> -1]
    /\ runs = <<>>
    /\ strip = NoStrip
    /\ IdleRender

SpecOverlap == InitOverlap /\ [][NextOverlap]_vars

\* leaf blocks: images, one-word and two-word paragraphs
Leaves ==
    {Image(j * FillerStep) : j \in 1 .. MaxFillers}
        \cup {TextBlock(WordsText(n), lh, 1, 0, FALSE) :
                 n \in 1 .. 2, lh \in {3 * SubPx, 3 * SubPx + 1}}
        \cup {Image(PagePx * SubPx)}

InitLeaves ==
    /\ source \in {Root(kids) : kids \in SeqsUpTo(Leaves, MaxKids)}
    /\ clone = Root(<<>>)
    /\ pageContentPx = PagePx
    /\ ppc = "start"
    /\ stack = <<>>
    /\ last = NoOp
    /\ fit = NoFit
    /\ runs = <<>>
    /\ strip = NoStrip
    /\ dom = NoDom
    /\ jobs = NoJobs
    /\ IdleRender

SpecLeaves == InitLeaves /\ [][NextPaginate]_vars

\* one paragraph whose text is given character by character
Alphabet == {"a", "b", " ", "\n"}

InitText ==
    /\ source \in
          {Root(<<f, TextBlock(t, lh, 1, 0, pre)>>) :
              f \in {Image(0), Image(3 * FillerStep)},
              t \in SeqsUpTo(Alphabet, MaxTextLen),
              lh \in {5 * SubPx},
              pre \in BOOLEAN}
    /\ clone = Root(<<>>)
    /\ pageContentPx = PagePx
    /\ ppc = "start"
    /\ stack = <<>>
    /\ last = NoOp
    /\ fit = NoFit
    /\ runs = <<>>
    /\ strip = NoStrip
    /\ dom = NoDom
    /\ jobs = NoJobs
    /\ IdleRender

SpecText == InitText /\ [][NextPaginate]_vars

(***************************************************************************)
(* Properties of the render entry points                                   *)
(***************************************************************************)
\* the pages the call would output without forcedPageCount
UnforcedPages ==
    IF call.fn = "generatePDF" THEN call.pages
    ELSE CeilDiv(call.canvasHeight,
                 layout.pageContentPx.n * Html2canvasScale(call.fn))

\* the pages the call output
OutputPages ==
    CASE call.fn = "generatePDF" -> doc.pages
      [] call.fn = "generateImagePDF" -> doc.pages
      [] call.fn = "generateImages" -> out.images
      [] call.fn = "previewImages" -> out.preview

\* C6: once a render call has settled (resolved or rejected), neither the
\* off-screen clone nor any reset <style> element it injected is attached.
C6_CleanupAlwaysRuns == out.settled # "pending" => attached = {}

\* C7: with forcedPageCount = N, N finite and floor(N) >= 1, a call whose
\* un-forced result has P pages outputs exactly the first min(P, floor(N))
\* pages: document pages (generatePDF, generateImagePDF), returned images
\* (generateImages), injected images (previewImages).
C7_ForcedPageCountTrims ==
    (/\ out.settled = "resolved"
     /\ call.forced.k = "fin"
     /\ FloorDiv(call.forced.n, call.forced.d) >= 1)
        => OutputPages =
             Range(1, Min(UnforcedPages,
                          FloorDiv(call.forced.n, call.forced.d)))

\* a 3-page result cut to its first page in the preview
C7_Witness ==
    /\ out.settled = "resolved"
    /\ call.fn = "previewImages"
    /\ call.forced = Fin(3, 2)
    /\ UnforcedPages = 3
    /\ out.preview = <<1>>

\* C8: an invalid forcedPageCount (<= 0, NaN, Infinity, undefined) is
\* ignored: the call outputs all the pages of the un-forced result and no
\* page is deleted.
C8_InvalidForcedIgnored ==
    (/\ out.settled = "resolved"
     /\ \/ call.forced.k \in {"undef", "nan", "inf"}
        \/ call.forced.k = "fin" /\ call.forced.n <= 0)
        => OutputPages = Range(1, UnforcedPages)

\* generatePDF given -1/2 keeps the three pages doc.html produced
C8_Witness ==
    /\ out.settled = "resolved"
    /\ call.fn = "generatePDF"
    /\ call.forced = Fin(-1, 2)
    /\ doc.pages = <<1, 2, 3>>

\* C9: a clone whose rendered width is 0 makes the call reject before any
\* splitting, pagination or rendering; no Layout with a non-finite scale or
\* a degenerate pageContentPx is produced or used.
C9_ZeroWidthRejected ==
    /\ (pc # "start" /\ call.renderedWidth = 0)
          => (out.settled = "rejected" /\ splitPx = NotRun)
    /\ layout # NoLayout
          => (layout.scale.k = "fin" /\ layout.pageContentPx.k = "fin"
              /\ layout.pageContentPx.n > 0)

\* C10: computeLayout returns contentWidthMm = pageWidth - left - right,
\* scale = contentWidthMm / renderedWidth and a whole pageContentPx with
\* pageContentPx * scale <= usable height < (pageContentPx + 1) * scale.
C10_LayoutBracket ==
    layout # NoLayout =>
        LET opts == resolveOptions(call)
            usable == opts.pageHeight - opts.margin.top - opts.margin.bottom
        IN  /\ layout.contentWidthMm =
                   opts.pageWidth - opts.margin.left - opts.margin.right
            /\ layout.scale.k = "fin"
            /\ layout.scale.n * call.renderedWidth
                   = layout.contentWidthMm * layout.scale.d
            /\ layout.pageContentPx.k = "fin"
            /\ layout.pageContentPx.n * layout.scale.n
                   <= usable * layout.scale.d
            /\ usable * layout.scale.d
                   < (layout.pageContentPx.n + 1) * layout.scale.n

\* the bracket of C10 on the layouts of a laid-out clone with room for content
LayoutBracketWhenValid ==
    (layout # NoLayout /\ call.renderedWidth > 0 /\ layout.contentWidthMm > 0)
        => C10_LayoutBracket

(***************************************************************************)
(* Properties of the pagination engine                                     *)
(***************************************************************************)
IsSpacer(el) == el.tag = "DIV" /\ el.h > 0 /\ el.kids = <<>>

\* a <div> made by splitOversizedText or splitTextAtBoundary
IsChunk(el) == el.tag = "DIV" /\ el.id = 0 /\ el.h = 0 /\ el.kids = <<>>

\* the leaves below el, in document order
RECURSIVE LeavesOf(_)
LeavesOf(el) ==
    LET Upto[j \in 0 .. Len(el.kids)] ==
            IF j = 0 THEN <<>> ELSE Upto[j - 1] \o LeavesOf(el.kids[j])
    IN  IF el.kids = <<>> THEN <<el>> ELSE Upto[Len(el.kids)]

\* the tables below el, in document order
TablesOf(el) == SelectSeq(LeavesOf(el), LAMBDA x : x.tag = "TABLE")

ChunksOf(el) == SelectSeq(LeavesOf(el), IsChunk)

RECURSIVE Flatten(_)
Flatten(ss) == IF ss = <<>> THEN <<>> ELSE Head(ss) \o Flatten(Tail(ss))

AfterOversizePass == ppc = "spacers" /\ last.op = "none"

\* the container of C1: leaf blocks, none taller than a page
LeafContainer ==
    \A j \in 1 .. Len(source.kids) :
        /\ source.kids[j].tag # "TABLE"
        /\ source.kids[j].kids = <<>>
        /\ Height(source.kids[j]) <= Limit

ChildTop(j) == TopOf(clone, 0, <<j>>)
ChildBottom(j) == ChildTop(j) + Height(clone.kids[j])
PushedTop == TopOf(clone, 0, Append(last.path, last.i + 1))

C2_NoBlockTallerThanPage ==
    AfterOversizePass =>
        \A j \in 1 .. Len(LeavesOf(clone)) :
            LET el == LeavesOf(clone)[j]
            IN  (el.tag = "TABLE" \/ el.text # <<>>) => Height(el) <= Limit

SourceBlock == source.kids[2]

\* C2 amended: a fragment emitted for an oversized direct-child table that
\* holds two or more body rows has header + rows (offsetHeight) <=
\* pageContentPx - 2; an emitted text fragment of two or more words is no
\* taller than pageContentPx; a table inside a container is left as it is.
C2_MultiUnitFragmentsFit ==
    AfterOversizePass =>
        /\ (SourceBlock.tag = "TABLE" /\ OffsetHeight(SourceBlock) > Limit) =>
              \A j \in 2 .. Len(clone.kids) :
                  Len(BodyRows(clone.kids[j])) >= 2 =>
                      SumOffsetH(clone.kids[j].rows) <= Limit - 2 * SubPx
        /\ \A j \in 1 .. Len(ChunksOf(clone)) :
              LET c == ChunksOf(clone)[j]
              IN  Len(Tokenize(c.text, c.pre)) >= 2 => Height(c) <= Limit
        /\ (SourceBlock.tag = "DIV" /\ SourceBlock.kids[1].tag = "TABLE") =>
              clone.kids[2] = SourceBlock

\* an oversized table cut into fragments, the first with two body rows
C2_Witness ==
    /\ AfterOversizePass
    /\ SourceBlock.tag = "TABLE"
    /\ Len(clone.kids) >= 3
    /\ Len(BodyRows(clone.kids[2])) >= 2

\* C3: the body rows of the tables of the clone, in document order, are the
\* original table's body rows (none lost, duplicated or reordered); once it
\* is split the original table is gone; and when the first row holds a
\* header cell every fragment starts with a copy of it.
C3_TableRowsPreserved ==
    (ppc # "start" /\ TablesOf(source) # <<>>) =>
        LET original == TablesOf(source)[1]
            fragments == TablesOf(clone)
            Body(t) == IF t.rows = <<>> THEN <<>>
                       ELSE IF t.rows[1].th THEN Tail(t.rows)
                       ELSE t.rows
        IN  /\ Flatten([j \in 1 .. Len(fragments) |-> Body(fragments[j])])
                   = Body(original)
            /\ Len(fragments) >= 2 =>
                  \A j \in 1 .. Len(fragments) : fragments[j] # original
            /\ (original.rows # <<>> /\ original.rows[1].th) =>
                  \A j \in 1 .. Len(fragments) :
                      /\ fragments[j].rows # <<>>
                      /\ fragments[j].rows[1] = original.rows[1]
                      /\ \A m \in 2 .. Len(fragments[j].rows) :
                            ~fragments[j].rows[m].th

\* a fragment of an oversized table split again at a page boundary
C3_Witness ==
    /\ last.op = "tableSplit"
    /\ OffsetHeight(SourceBlock) > Limit
    /\ Len(TablesOf(clone)) >= 3

SourceText == source.kids[2]

\* the text with every run of whitespace collapsed to one space, trimmed
Collapse(text) == Join(Tokenize(text, FALSE))

FragmentTexts == [j \in 1 .. Len(ChunksOf(clone)) |-> ChunksOf(clone)[j].text]

\* C4 as stated: the fragments' word lists, concatenated, are the original
\* token sequence, and the fragments' text joined with single spaces is the
\* whitespace-collapsed original text, in normal and in newline-preserving
\* white-space modes.
C4_TextPreservedCollapsed ==
    (ppc # "start" /\ ChunksOf(clone) # <<>>) =>
        /\ Flatten([j \in 1 .. Len(FragmentTexts) |->
                       Tokenize(FragmentTexts[j], SourceText.pre)])
               = Tokenize(SourceText.text, SourceText.pre)
        /\ Join(FragmentTexts) = Collapse(SourceText.text)

\* C4 amended: the fragments' word lists, concatenated, are the original
\* token sequence in both modes, and the fragments' text joined with single
\* spaces is the token sequence joined with single spaces: the
\* whitespace-collapsed original in normal mode; in a newline-preserving
\* mode it keeps each newline as a token of its own and is the collapsed
\* original once its whitespace is collapsed too.
C4_TextTokensPreserved ==
    (ppc # "start" /\ ChunksOf(clone) # <<>>) =>
        /\ Flatten([j \in 1 .. Len(FragmentTexts) |->
                       Tokenize(FragmentTexts[j], SourceText.pre)])
               = Tokenize(SourceText.text, SourceText.pre)
        /\ Join(FragmentTexts)
               = Join(Tokenize(SourceText.text, SourceText.pre))
        /\ ~SourceText.pre =>
               Join(FragmentTexts) = Collapse(SourceText.text)
        /\ Collapse(Join(FragmentTexts)) = Collapse(SourceText.text)

\* a newline-preserving paragraph with a newline, split into fragments
C4_Witness ==
    /\ ppc = "done"
    /\ SourceText.pre
    /\ "\n" \in {SourceText.text[j] : j \in 1 .. Len(SourceText.text)}
    /\ Len(ChunksOf(clone)) >= 2

\* the first sub-unit (body row, word) of a table or text leaf fits in `space`
FirstUnitFits(el, space) ==
    IF el.tag = "TABLE"
    THEN el.rows # <<>> /\ BodyRows(el) # <<>> /\ BodyRows(el)[1].h <= space
    ELSE /\ el.tag = "P"
         /\ el.kids = <<>>
         /\ Tokenize(el.text, el.pre) # <<>>
         /\ TextHeight(Tokenize(el.text, el.pre)[1], el) <= space

\* C5 as stated: a table or text leaf that straddles a page boundary and has
\* at least one sub-unit fitting in the remaining space is split, never
\* pushed whole by a spacer.
C5_NeverPushedWhenUnitFits ==
    last.op = "spacer" => ~FirstUnitFits(last.node, last.remaining)

\* a split point as the code measures it: two or more units, the first fits
\* (for a table with the header and the 2 px slack, for a text in the
\* padding-free measuring element) and not all of them do
SplitPoint(el, space) ==
    IF el.tag = "TABLE"
    THEN /\ el.rows # <<>>
         /\ Len(BodyRows(el)) >= 2
         /\ HeaderHeight(el) + RowOffsetHeight(BodyRows(el)[1]) + 2 * SubPx
                <= space
         /\ SumOffsetH(el.rows) + 2 * SubPx > space
    ELSE /\ el.tag = "P"
         /\ el.kids = <<>>
         /\ Len(Tokenize(el.text, el.pre)) >= 2
         /\ TextHeight(Tokenize(el.text, el.pre)[1], el) <= space
         /\ TextHeight(Join(Tokenize(el.text, el.pre)), el) > space

\* C5 amended: a straddling table or text leaf with a split point as the
\* code measures it is split and never pushed whole.
C5_SplitPointNeverPushed ==
    last.op \in {"spacer", "tooTall"} => ~SplitPoint(last.node, last.remaining)

\* a straddling paragraph with a split point, split at the boundary
C5_Witness ==
    /\ last.op = "textSplit"
    /\ SplitPoint(last.node, last.remaining)
    /\ last.remaining < Limit

(***************************************************************************)
(* Properties of the decorations                                           *)
(***************************************************************************)
IsContent(op) == op.kind = "content"
IsDecoration(op) == op.kind # "content"

\* the page a stream belongs to, and the total handed to the decorations
StreamPage(p) == IF call.fn = "generatePDF" THEN doc.pages[p] ELSE p
StreamTotal == Fin(Len(doc.streams), 1)

\* C11: in a decorated call that has resolved, every page's operations are
\* all its decoration operations followed by all its main-content
\* operations, each group in its original order and complete: the command
\* stream of generatePDF after the reordering, the page canvas of
\* generateImagePDF and generateImages.
C11_DecorationsBeneath ==
    (out.settled = "resolved" /\ Decorated(call)) =>
        \A p \in 1 .. Len(doc.streams) :
            LET stream == doc.streams[p]
            IN  /\ \A i, j \in 1 .. Len(stream) :
                      i < j => ~(IsContent(stream[i]) /\ IsDecoration(stream[j]))
                /\ SelectSeq(stream, IsContent) =
                       (IF call.fn = "generatePDF"
                        THEN ContentOps(StreamPage(p))
                        ELSE ContentSlice(p, call.canvasHeight,
                                 ContentHeightPx(layout,
                                     Html2canvasScale(call.fn)).n))
                /\ SelectSeq(stream, IsDecoration) =
                       PageDecorations(call, resolveOptions(call), p,
                                       StreamTotal)

\* a generatePDF page with content and three decorations, decorations first
C11_Witness ==
    /\ out.settled = "resolved"
    /\ call.fn = "generatePDF"
    /\ \E p \in 1 .. Len(doc.streams) :
          /\ Len(SelectSeq(doc.streams[p], IsContent)) >= 2
          /\ Len(SelectSeq(doc.streams[p], IsDecoration)) >= 3
          /\ IsDecoration(doc.streams[p][1])

\* the margin an override stands for, with `fallback` for the sides it
\* leaves unspecified
OwnMargin(m, fallback) ==
    [top |-> IF m.k = "num" THEN m.v
             ELSE IF m.k = "sides" /\ m.sides.top.k # "undef"
             THEN m.sides.top.n ELSE fallback.top,
     right |-> IF m.k = "num" THEN m.v
               ELSE IF m.k = "sides" /\ m.sides.right.k # "undef"
               THEN m.sides.right.n ELSE fallback.right,
     bottom |-> IF m.k = "num" THEN m.v
                ELSE IF m.k = "sides" /\ m.sides.bottom.k # "undef"
                THEN m.sides.bottom.n ELSE fallback.bottom,
     left |-> IF m.k = "num" THEN m.v
              ELSE IF m.k = "sides" /\ m.sides.left.k # "undef"
              THEN m.sides.left.n ELSE fallback.left]

FormatMargin == createUniformMargin(PAGE_MARGINS[call.format])
MainMargin == resolveOptions(call).margin

\* the operation sits where the margin `m` puts it
PlacedBy(op, m) ==
    LET opts == resolveOptions(call)
    IN  IF op.kind = "slot"
        THEN LET rect == getSlotRect(op.slot, opts, m)
             IN  /\ op.x = rect.x /\ op.y = rect.y
                 /\ op.w = rect.width /\ op.h = rect.height
        ELSE /\ op.x = m.left /\ op.y = m.top
             /\ op.w = opts.pageWidth - m.left - m.right
             /\ op.h = opts.pageHeight - m.top - m.bottom

\* the override of the option an operation comes from
OverrideOf(op) ==
    CASE op.kind = "slot" -> call.marginContent.margin
      [] op.kind = "border" -> call.border.margin
      [] OTHER -> call.textBorder.margin

SlotEvents(e, s) == SelectSeq(log, LAMBDA v : v.e = e /\ v.slot = s)
SlotOpsOn(p, s) ==
    SelectSeq(doc.streams[p], LAMBDA op : op.kind = "slot" /\ op.slot = s)

\* the slot's rectangle has a positive width and height
PositiveRect(s) ==
    LET rect == getSlotRect(s, resolveOptions(call),
                            OwnMargin(call.marginContent.margin, FormatMargin))
    IN  rect.width > 0 /\ rect.height > 0

\* the pages the call has put out
PagesOutput == Len(doc.streams)

\* rendered once, and that bitmap painted once on every page
StaticOnce(s) ==
    /\ Len(SlotEvents("static", s)) = 1
    /\ \A p \in 1 .. PagesOutput :
          /\ Len(SlotOpsOn(p, s)) = 1
          /\ SlotOpsOn(p, s)[1].page = 0

\* invoked with (1, T), (2, T), ..., (T, T), in that order
FactoryPerPage(s) ==
    SlotEvents("factory", s) =
        [i \in 1 .. PagesOutput |->
            SlotEv("factory", s, i, Fin(PagesOutput, 1))]

\* C13 as stated: in a render that outputs T pages every static slot is
\* rendered to a bitmap exactly once and the bitmap is used on all T pages,
\* and every factory slot with a positive-size rectangle is invoked once
\* per page, in increasing page order, with (i, T), T the pages output.
C13_EveryStaticSlotOnce ==
    (out.settled = "resolved" /\ call.marginContent.given) =>
        \A s \in Slots :
            /\ call.marginContent.slots[s] = "static" => StaticOnce(s)
            /\ (call.marginContent.slots[s] = "factory" /\ PositiveRect(s))
                   => FactoryPerPage(s)

\* C13 amended: the same for the static slots that have a positive-size
\* rectangle; a static or factory slot whose rectangle is empty is never
\* rendered, never invoked and painted on no page.
C13_PositiveSlotsOncePerPage ==
    (out.settled = "resolved" /\ call.marginContent.given) =>
        \A s \in Slots :
            /\ (call.marginContent.slots[s] = "static" /\ PositiveRect(s))
                   => StaticOnce(s)
            /\ (call.marginContent.slots[s] = "factory" /\ PositiveRect(s))
                   => FactoryPerPage(s)
            /\ ~PositiveRect(s) =>
                   /\ SlotEvents("static", s) = <<>>
                   /\ SlotEvents("factory", s) = <<>>
                   /\ \A p \in 1 .. PagesOutput : SlotOpsOn(p, s) = <<>>

\* a document trimmed from three pages to two, with a static and a factory
\* slot on both
C13_Witness ==
    /\ out.settled = "resolved"
    /\ call.fn = "generatePDF"
    /\ call.pages = 3
    /\ PagesOutput = 2
    /\ call.marginContent.slots.right = "static" /\ PositiveRect("right")
    /\ call.marginContent.slots.bottom = "factory" /\ PositiveRect("bottom")
    /\ Len(SlotEvents("factory", "bottom")) = 2
    /\ Len(SlotEvents("static", "right")) = 1

(***************************************************************************)
(* Properties of the order of the steps of a call.                         *)
(***************************************************************************)

\* where a step stands in the log
Positions(e) == {i \in 1 .. Len(log) : log[i].e = e}

\* every occurrence of step b has an occurrence of step a before it
Before(a, b) == \A j \in Positions(b) : \E i \in Positions(a) : i < j

\* the measuring steps run in order and are over when doc.html is invoked
PreparedBeforeRenderer ==
    /\ Before("normalizeTableAttributes", "computeLayout")
    /\ Before("computeLayout", "splitOversizedTables")
    /\ Before("splitOversizedTables", "splitOversizedText")
    /\ Before("splitOversizedText", "insertPageBreakSpacers")
    /\ Before("insertPageBreakSpacers", "doc.html")
    /\ Before("doc.html", "callback")

\* doc.html is invoked at most once, and once in every call that settled
RendererInvokedOnce ==
    /\ Cardinality(Positions("doc.html")) <= 1
    /\ out.settled # "pending" => Cardinality(Positions("doc.html")) = 1

\* C14 as stated: in generatePDF the normalization, the layout, the two
\* splitters and the spacers complete in that order before doc.html is
\* invoked; cleanup, trimming, decoration and the resolution happen only
\* after the callback of doc.html has fired; doc.html is invoked exactly
\* once per call.
C14_AllAfterCallback ==
    call.fn = "generatePDF" =>
        /\ PreparedBeforeRenderer
        /\ Before("callback", "cleanup")
        /\ Before("callback", "trimDocumentToForcedPageCount")
        /\ Before("callback", "addMarginContent")
        /\ Before("callback", "moveAddedPageOpsToBackground")
        /\ Before("callback", "resolve")
        /\ RendererInvokedOnce

\* C14 amended: the same, except that cleanup happens only after the
\* callback has fired or doc.html has thrown; trimming, decoration and the
\* resolution happen only after the callback.
C14_CleanupAfterCallbackOrThrow ==
    call.fn = "generatePDF" =>
        /\ PreparedBeforeRenderer
        /\ \A j \in Positions("cleanup") :
              \E i \in Positions("callback") \cup Positions("failure") :
                  /\ i < j
                  /\ \E h \in Positions("doc.html") : h < i
        /\ Before("callback", "trimDocumentToForcedPageCount")
        /\ Before("callback", "addMarginContent")
        /\ Before("callback", "moveAddedPageOpsToBackground")
        /\ Before("callback", "resolve")
        /\ RendererInvokedOnce

\* a trimmed, decorated generatePDF call that has resolved
C14_Witness ==
    /\ call.fn = "generatePDF"
    /\ out.settled = "resolved"
    /\ Positions("trimDocumentToForcedPageCount") # {}
    /\ Positions("moveAddedPageOpsToBackground") # {}
    /\ Positions("cleanup") # {}

\* doc.html or html2canvas was invoked and failed
RendererFailed ==
    \E i \in Positions("failure") :
        i > 1 /\ log[i - 1].e \in {"doc.html", "html2canvas"}

\* C15: when doc.html (generatePDF) or html2canvas (generateImagePDF,
\* generateImages) fails, the call eventually rejects, is never left
\* pending forever, never resolves, and the renderer is not invoked a
\* second time.
C15_RendererFailureRejects ==
    /\ [](RendererFailed => <>(out.settled = "rejected"))
    /\ [](RendererFailed =>
              /\ out.settled # "resolved"
              /\ Cardinality(Positions("doc.html")
                                 \cup Positions("html2canvas")) = 1)

(***************************************************************************)
(* Properties of the caller's element.                                     *)
(***************************************************************************)

MeasuringSteps ==
    {"computeLayout", "splitOversizedTables", "splitOversizedText",
     "insertPageBreakSpacers"}

\* C17: in a call whose clone embeds images, computeLayout, the two
\* splitters and insertPageBreakSpacers measure only after the wait for the
\* images (each loaded or failed) has completed, in the vector path and in
\* the raster path.
C17_MeasuredAfterImages ==
    call.images # <<>> =>
        \A m \in MeasuringSteps : Before("waitForImages", m)

(***************************************************************************)
(* Properties of the packing of uniform rows.                              *)
(***************************************************************************)

\* the table of the scenario and what it is made of
PackedTable == source.kids[1]
PackedHeaderPx == PackedTable.rows[1].h \div SubPx
PackedBodyRows == Len(PackedTable.rows) - 1

\* body rows that fit in a page by their heights alone
RowsByPageHeight == pageContentPx \div PackRowPx

\* body rows that fit under the header with the 2 px the code keeps free
RowsUnderHeader ==
    LET count == (pageContentPx - PackedHeaderPx - 2) \div PackRowPx
    IN  IF count < 1 THEN 1 ELSE count

\* the clone holds the table in fragments of the header plus `perFragment`
\* body rows each, the last one holding the rest, none lost, in order
PackedBy(perFragment) ==
    /\ Len(clone.kids) = CeilDiv(PackedBodyRows, perFragment)
    /\ \A g \in 1 .. Len(clone.kids) :
          LET rows == clone.kids[g].rows
              first == (g - 1) * perFragment
          IN  /\ clone.kids[g].tag = "TABLE"
              /\ rows[1] = PackedTable.rows[1]
              /\ Len(rows) - 1 =
                     Min(perFragment, PackedBodyRows - first)
              /\ \A j \in 2 .. Len(rows) :
                     rows[j] = PackedTable.rows[first + j]

\* C18 as stated: an oversized direct-child table with a header row and
\* uniform body rows is cut into fragments that hold the header plus as
\* many body rows as fit in one page by their heights (50 rows of 10 px,
\* pageContentPx = 105: the header plus 10 rows each, 5 fragments).
C18_RowsByPageHeight ==
    AfterOversizePass => PackedBy(RowsByPageHeight)

\* C18 amended: the fragments hold the header plus as many body rows as fit
\* in pageContentPx - headerHeight - 2 pixels, at least one (50 rows of
\* 10 px, pageContentPx = 105: 10 rows each and 5 fragments under a header
\* of at most 3 px, 9 rows each and 6 fragments under a header of 4 to
\* 12 px).
C18_RowsUnderHeader ==
    AfterOversizePass => PackedBy(RowsUnderHeader)

\* the table under a header as high as its rows: six fragments, nine rows
\* in the first
C18_Witness ==
    /\ AfterOversizePass
    /\ PackedHeaderPx = PackRowPx
    /\ PackedBodyRows = PackRows
    /\ RowsUnderHeader < RowsByPageHeight
    /\ Len(clone.kids) = CeilDiv(PackedBodyRows, RowsUnderHeader)
    /\ Len(clone.kids[1].rows) = RowsUnderHeader + 1

(***************************************************************************)
(* Properties of binarySearchWordFit.                                      *)
(***************************************************************************)

\* the measured height of words[start .. k) and whether it fits
ChunkHeight(k) == TextHeight(Join(Slice(fit.words, fit.start, k)), fit.el)
Fits(k) == ChunkHeight(k) <= fit.maxHeight

\* the measured height does not decrease as words are added
MonotoneHeights ==
    \A k \in (fit.start + 1) .. (Len(fit.words) - 1) :
        ChunkHeight(k) <= ChunkHeight(k + 1)

\* C19: when the measured height of words[start .. k) is non-decreasing in
\* k and the single word words[start] fits, binarySearchWordFit returns the
\* greatest k in (start, words.length] whose chunk fits under maxHeight;
\* when even one word does not fit it returns start + 1.
C19_MaximumPrefix ==
    (fit.lo # -1 /\ MonotoneHeights) =>
        IF Fits(fit.start + 1)
        THEN /\ fit.lo \in (fit.start + 1) .. Len(fit.words)
             /\ Fits(fit.lo)
             /\ \A k \in (fit.start + 1) .. Len(fit.words) :
                    Fits(k) => k <= fit.lo
        ELSE fit.lo = fit.start + 1

\* the long paragraph: 12 of its 20 words fit, 15 do not, and the search
\* has returned a count between them
C19_Witness ==
    /\ fit.lo # -1
    /\ Len(fit.words) = ScenarioWords
    /\ Fits(12) /\ ~Fits(15)
    /\ fit.lo >= 12 /\ fit.lo < 15
    /\ ~Fits(fit.lo + 1)

(***************************************************************************)
(* Properties of the clone's images.                                       *)
(***************************************************************************)

\* C20: a cross-origin image that cannot be captured does not reject the
\* call, the other images are still processed, and the image itself is left
\* as it was: same src, same inline width and height.
C20_CrossOriginLeftUntouched ==
    (Positions("compressCloneImages") # {} /\ call.context) =>
        /\ Before("compressCloneImages", "doc.html")
        /\ Positions("doc.html") # {}
        /\ \A j \in 1 .. Len(imgs) :
              IF call.images[j].origin = "cross"
              THEN imgs[j] = call.images[j]
              ELSE (call.images[j].loaded /\ call.images[j].src = "url")
                       => imgs[j].redrawn

(***************************************************************************)
(* Properties of the canvas contexts.                                      *)
(***************************************************************************)

\* C21: wherever the pipeline asks for a 2D context and gets none (the page
\* slice canvas of the image renderers, the compression canvas of
\* generatePDF, the text-border canvas of addMarginContent) the call is
\* rejected; it never skips the step and reports success.
C21_MissingContextRejects ==
    /\ Positions("noContext") # {} => out.settled # "resolved"
    /\ (~call.context /\ call.fn # "generatePDF") => doc.streams = <<>>

(***************************************************************************)
(* Properties of the resolved options.                                     *)
(***************************************************************************)

\* C22: the PageOptions that resolveOptions hands to a render call have
\* pageWidth > 0, pageHeight > 0, margin.left and margin.right each below
\* pageWidth / 2, margin.top and margin.bottom each below pageHeight / 2,
\* whatever format and margin the caller gave.
C22_PageSpecInvariant ==
    pc # "start" =>
        LET opts == resolveOptions(call)
        IN  /\ opts.pageWidth > 0
            /\ opts.pageHeight > 0
            /\ 2 * opts.margin.left < opts.pageWidth
            /\ 2 * opts.margin.right < opts.pageWidth
            /\ 2 * opts.margin.top < opts.pageHeight
            /\ 2 * opts.margin.bottom < opts.pageHeight

(***************************************************************************)
(* Properties of repeated calls.                                           *)
(***************************************************************************)

\* the pages a paginated clone takes
PageCountOf(tree) == CeilDiv(Height(tree), Limit)

SliceOn(p) == doc.streams[p][Len(doc.streams[p])]

\* C24: the raster pipeline slices the bitmap of height H with
\* c = round(pageContentPx * scale): page i (0-based) takes the source rows
\* [i*c, i*c + min(c, H - i*c)), every slice is non-empty and at most c rows
\* tall, the slices follow one another without gap or overlap, and a call
\* without a forced page count resolves with ceil(H / c) pages that cover
\* all H rows.
C24_SlicesCoverBitmap ==
    (call.fn # "generatePDF" /\ layout # NoLayout) =>
        LET H == call.canvasHeight
            c == layout.pageContentPx.n * Html2canvasScale(call.fn)
            n == Len(doc.streams)
        IN  /\ \A p \in 1 .. n :
                  /\ SliceOn(p).kind = "content"
                  /\ SliceOn(p).y = (p - 1) * c
                  /\ SliceOn(p).h = Min(c, H - (p - 1) * c)
                  /\ SliceOn(p).h >= 1
                  /\ SliceOn(p).h <= c
            /\ \A p \in 1 .. (n - 1) :
                  SliceOn(p).y + SliceOn(p).h = SliceOn(p + 1).y
            /\ (/\ out.settled = "resolved"
                /\ ~Truthy(normalizeForcedPageCount(call.forced)))
                  => /\ layout.pageContentPx.k = "fin"
                     /\ c >= 1
                     /\ n = CeilDiv(H, c)
                     /\ (n > 0 => SliceOn(n).y + SliceOn(n).h = H)
                     /\ (n = 0 => H = 0)

\* the slices of C24 on the layouts of a laid-out clone with room for content
SlicesCoverWhenLaidOut ==
    (/\ layout # NoLayout
     /\ layout.scale.k = "fin"
     /\ layout.pageContentPx.k = "fin"
     /\ layout.pageContentPx.n > 0)
        => C24_SlicesCoverBitmap

(***************************************************************************)
(* Properties of the text border's strips                                  *)
(***************************************************************************)
\* the repetitions laid end to end are longer than the edge
RepetitionsExceedEdge ==
    strip.reps * (strip.singleWidth + strip.gapPx) > strip.widthPx

\* every painted glyph is painted whole
WholeGlyphsOnly ==
    \A g \in strip.glyphs : g.to - g.from = strip.charPx

\* C25: a repeated-text border tiles enough repetitions that their total
\* length (repetitions times single width plus gap) exceeds the edge length,
\* and the last, partial repetition is trimmed at a whole-character
\* boundary: no character of the strip is cut.
C25_WholeCharactersOnly ==
    strip.reps # -1 => (RepetitionsExceedEdge /\ WholeGlyphsOnly)

\* the number of repetitions of C25 alone
StripTilesPastEdge ==
    strip.reps # -1 => RepetitionsExceedEdge

(***************************************************************************)
(* Properties of the split of a table at a page boundary                   *)
(***************************************************************************)
\* C26: when splitTableAtBoundary(table, container, availableHeight) returns
\* true, the table is replaced in place by exactly two tables: the first
\* holds the header (if any) and fitCount >= 1 body rows whose heights plus
\* the header's are <= availableHeight - 2, the second holds a copy of the
\* header and the remaining >= 1 body rows, and the cursor of
\* insertPageBreakSpacers stays on the index of the first fragment.
C26_TableSplitFits ==
    [][(last'.op = "tableSplit" /\ clone' # clone) =>
          LET d == last'
              before == NodeAt(clone, d.path).kids
              after == NodeAt(clone', d.path).kids
              table == before[d.i]
              header == HeaderRows(table)
              body == BodyRows(table)
          IN  /\ table.tag = "TABLE"
              /\ Len(after) = Len(before) + 1
              /\ \A j \in 1 .. (d.i - 1) : after[j] = before[j]
              /\ \A j \in (d.i + 1) .. Len(before) : after[j + 1] = before[j]
              /\ \E fitCount \in 1 .. (Len(body) - 1) :
                    /\ after[d.i] =
                           [table EXCEPT
                               !.rows = header \o SubSeq(body, 1, fitCount)]
                    /\ after[d.i + 1] =
                           [table EXCEPT
                               !.rows = header \o SubSeq(body, fitCount + 1,
                                                         Len(body))]
                    /\ HeaderHeight(table)
                           + SumOffsetH(SubSeq(body, 1, fitCount))
                         <= d.remaining - 2 * SubPx
              /\ Head(stack').path = d.path
              /\ Head(stack').i = d.i]_vars

\* a table with a header split at a boundary, two body rows staying on the
\* page
C26_Witness ==
    /\ last.op = "tableSplit"
    /\ HasHeader(last.node)
    /\ stack # <<>>
    /\ Head(stack).i = last.i
    /\ Len(NodeAt(clone, last.path).kids[last.i].rows) >= 3
    /\ Len(NodeAt(clone, last.path).kids[last.i + 1].rows) >= 2

(***************************************************************************)
(* Properties of overlapping render calls                                  *)
(***************************************************************************)
\* the calls whose cleanup this step invokes
CleaningUp == {c \in 1 .. Len(jobs) : jobs'[c].cleanups > jobs[c].cleanups}

\* the clone a call made
CloneOf(job) == {n \in job.made : n.kind = "clone"}

\* C27: when two render calls overlap, the cleanup of one call removes only
\* the clone and the reset <style> that this call created, never those of
\* the other call, whose clone stays attached until its own cleanup; and a
\* second invocation of a call's cleanup changes nothing.
C27_CleanupOwnsItsScaffolding ==
    /\ [](\A c \in 1 .. Len(jobs) :
             jobs[c].pc \in {"compress", "expand", "render"}
                 => jobs[c].made \subseteq dom.nodes)
    /\ [][\A c \in CleaningUp :
              /\ dom.nodes \ dom'.nodes \subseteq jobs[c].made
              /\ jobs[c].made \cap dom'.nodes = {}
              /\ \A o \in (1 .. Len(jobs)) \ {c} :
                    jobs[o].made \cap dom'.nodes = jobs[o].made \cap dom.nodes
              /\ jobs[c].cleanups >= 1 => dom' = dom]_vars

\* one call has cleaned up twice while the other call's clone and style are
\* still attached
C27_Witness ==
    /\ Len(jobs) = MaxJobs
    /\ jobs[1].cleanups = 2
    /\ jobs[2].pc = "render"
    /\ jobs[2].made # {}
    /\ jobs[2].made \subseteq dom.nodes
    /\ jobs[1].made \cap dom.nodes = {}

(***************************************************************************)
(* Termination of the pagination passes                                    *)
(***************************************************************************)
Phase(p) ==
    CASE p = "start" -> 0 [] p = "tables" -> 1 [] p = "text" -> 2
      [] p = "spacers" -> 3 [] p = "done" -> 4

\* the splits still possible below el: a table of r body rows can be split
\* r - 1 times, a text leaf of w words w - 1 times
RECURSIVE SplitsLeft(_)
SplitsLeft(el) ==
    LET Upto[j \in 0 .. Len(el.kids)] ==
            IF j = 0 THEN 0 ELSE Upto[j - 1] + SplitsLeft(el.kids[j])
    IN  IF el.tag = "TABLE"
        THEN (IF el.rows = <<>> THEN 0 ELSE Max(Len(BodyRows(el)) - 1, 0))
        ELSE IF el.kids = <<>>
        THEN Max(Len(Tokenize(el.text, el.pre)) - 1, 0)
        ELSE Upto[Len(el.kids)]

\* the loop iterations an element can cost: two for itself (it is examined,
\* its activation returns) and those of its children
RECURSIVE VisitsLeft(_)
VisitsLeft(el) ==
    LET Upto[j \in 0 .. Len(el.kids)] ==
            IF j = 0 THEN 0 ELSE Upto[j - 1] + VisitsLeft(el.kids[j])
    IN  2 + Upto[Len(el.kids)]

\* what an activation of insertPageBreakSpacers has left: the children from
\* its cursor on, and its return
FrameLeft(f) ==
    LET kids == NodeAt(clone, f.path).kids
        From[j \in f.i .. (Len(kids) + 1)] ==
            IF j > Len(kids) THEN 1 ELSE VisitsLeft(kids[j]) + From[j + 1]
    IN  IF f.i > Len(kids) THEN 1 ELSE From[f.i]

\* a split adds at most four visits and removes one possible split
LoopRank ==
    LET Sum[j \in 0 .. Len(stack)] ==
            IF j = 0 THEN 0 ELSE Sum[j - 1] + FrameLeft(stack[j])
    IN  5 * SplitsLeft(clone) + Sum[Len(stack)]

\* C28: the pagination passes terminate on a finite tree: every fragment
\* splitOversizedText emits holds at least one word; the passes follow one
\* another and every iteration of the loop of insertPageBreakSpacers brings
\* it nearer its end (a natural number falls); a table split leaves fewer
\* body rows in the table at the cursor, and a text split turns the leaf at
\* the cursor into a container, which the next iteration recurses into and
\* steps past.
C28_PaginationTerminates ==
    /\ [](ppc # "start" =>
              \A j \in 1 .. Len(ChunksOf(clone)) :
                  Tokenize(ChunksOf(clone)[j].text, FALSE) # <<>>)
    /\ [](ppc = "spacers" => LoopRank >= 0)
    /\ [][IF ppc = "spacers" /\ ppc' = "spacers"
          THEN LoopRank' < LoopRank
          ELSE Phase(ppc') > Phase(ppc)]_vars
    /\ [][(last'.op = "tableSplit" /\ clone' # clone) =>
              Len(BodyRows(NodeAt(clone', last'.path).kids[last'.i]))
                  < Len(BodyRows(NodeAt(clone, last'.path).kids[last'.i]))]_vars
    /\ [][(last'.op = "textSplit" /\ clone' # clone) =>
              /\ NodeAt(clone, last'.path).kids[last'.i].kids = <<>>
              /\ Len(NodeAt(clone', last'.path).kids[last'.i].kids) = 2
              /\ Head(stack').i = last'.i]_vars
    /\ [][(last.op = "textSplit" /\ last' # last) =>
              /\ last'.op = "recurse"
              /\ last'.path = last.path
              /\ last'.i = last.i
              /\ stack'[2].i = last.i + 1]_vars

\* the pipeline ended after a paragraph that fits in a page was split at a
\* page boundary and its second fragment pushed by a spacer
C28_Witness ==
    /\ ppc = "done"
    /\ source.kids[2].tag = "P"
    /\ Height(source.kids[2]) <= Limit
    /\ Len(clone.kids) = 2
    /\ Len(clone.kids[2].kids) = 3
    /\ IsSpacer(clone.kids[2].kids[2])

(***************************************************************************)
(* Properties of the wait for the clone's images                           *)
(***************************************************************************)
AwaitingImages == pc \in {"compress", "expand"}

\* an image that had failed before waitForImages was called: complete, with
\* naturalWidth 0, and no event to come
FailedBefore(img) == img.complete /\ ~img.loaded /\ ~img.fired

\* C29: waitForImages eventually resolves whenever every image is in, or
\* reaches, a loaded or failed state -- an image that had already failed
\* before the call included; the render call is never left pending on it.
C29_WaitForImagesResolves == AwaitingImages ~> ~AwaitingImages

\* the wait of C29 when no image had failed before the call
WaitResolvesWithoutFailedImage ==
    (AwaitingImages /\ \A j \in 1 .. Len(imgs) : ~FailedBefore(imgs[j]))
        ~> ~AwaitingImages

(***************************************************************************)
(* Properties of a boundary split that is not performed                    *)
(***************************************************************************)
\* C30: when splitTableAtBoundary or splitTextAtBoundary returns false the
\* tree is as before the call: the element's children and text and the
\* container's child list are unchanged (the loop of insertPageBreakSpacers
\* then inserts its spacer, or nothing when the child is taller than a
\* page), and no measuring element remains in the container.
C30_FailedSplitChangesNothing ==
    /\ [](ppc # "start" =>
              \A j \in 1 .. Len(LeavesOf(clone)) : ~IsMeasure(LeavesOf(clone)[j]))
    /\ [][(last'.op \in {"spacer", "tooTall"} /\ stack' # stack) =>
              LET d == last'
                  before == NodeAt(clone, d.path).kids
                  after == NodeAt(clone', d.path).kids
              IN  IF d.op = "tooTall"
                  THEN clone' = clone
                  ELSE /\ Len(after) = Len(before) + 1
                       /\ IsSpacer(after[d.i])
                       /\ \A j \in 1 .. (d.i - 1) : after[j] = before[j]
                       /\ \A j \in d.i .. Len(before) :
                             after[j + 1] = before[j]]_vars

\* a paragraph of two words or more whose split was refused: the measuring
\* element was made and removed, the paragraph pushed by a spacer
C30_Witness ==
    /\ last.op = "spacer"
    /\ last.node.tag = "P"
    /\ Len(Tokenize(last.node.text, last.node.pre)) >= 2
    /\ NodeAt(clone, last.path).kids[last.i + 1] = last.node

====
